---- MODULE Spec2Model ----
(***************************************************************************)
(* Scheduling, routing and dispatch core of the computational-pipeline     *)
(* social-media automation: the Queue Store (unified_queue_manager.py),    *)
(* the rate limiter of the publisher (social_publisher.py), the Duplicate  *)
(* Coordinator (duplicate_content_handler.py), the Destination Router      *)
(* (page_router.py) and the content creation of the Calendar Scheduler     *)
(* (enhanced_scheduler.py).                                                *)
(*                                                                         *)
(* Conventions.  A Python str that the code parses or compares is a        *)
(* sequence; an opaque str is a TLA+ string or a number.  An Optional      *)
(* value is a set: None is {} and a present value x is {x}.  A datetime    *)
(* is a number of minutes since day 0, 00:00.                              *)
(***************************************************************************)
EXTENDS Integers, Sequences, FiniteSets, TLC

VARIABLES
    queue,            \* UnifiedQueueManager.queue: list of QueuedContent
    posting_history,  \* UnifiedQueueManager.posting_history: list of dicts
    queue_file,       \* data/unified_queue.json on disk
    history_file,     \* data/unified_posting_history.json on disk
    now,              \* datetime.now(), in minutes
    uuid_next,        \* uuid.uuid4(): the next fresh identifier
    frame,            \* locals of a mark_posted call between its two writes
    faults,           \* number of failed writes and crashes so far
    last,             \* the last operation, its arguments and its result
    rate_limits,      \* SocialMediaPublisher.rate_limits
    clock,            \* time.time(), in seconds
    sent,             \* Graph API publish requests sent per platform since its last refill
    granted,          \* tokens granted per platform since its last refill
    throttled,        \* rate checks refused so far
    all_content,      \* EnhancedScheduler: all_content of generate_weekly_schedule
    sched_pc,         \* position of generate_weekly_schedule and its start_date
    min_day_gap,      \* DuplicateContentHandler.min_day_gap
    post_queue,       \* SmartScheduler.queue: list of QueuedPost
    post_queue_file,  \* data/post_queue.json on disk
    loop,             \* position of run_scheduler_loop and locals of check_and_publish
    published,        \* template names of the posts the platforms accepted
    recent_templates, \* SmartScheduler.recent_templates: names per platform
    peer_queue        \* queue of a second UnifiedQueueManager on the same files

vars == <<queue, posting_history, queue_file, history_file, now, uuid_next, frame,
          faults, last, rate_limits, clock, sent, granted, throttled, all_content,
          sched_pc, min_day_gap, post_queue, post_queue_file, loop, published,
          recent_templates, peer_queue>>

queue_vars == <<queue, posting_history, queue_file, history_file, now, uuid_next,
                frame, faults>>
rate_vars  == <<rate_limits, clock, sent, granted, throttled>>
sched_vars == <<all_content, sched_pc, min_day_gap>>
post_vars  == <<post_queue, post_queue_file, loop, published, recent_templates>>

-----------------------------------------------------------------------------
(* Bounds of the model *)

MaxContents == 2      \* QueuedContent objects created in one behaviour
MaxTicks == 1         \* minutes the clock of the Queue Store advances
MaxFaults == 1        \* failed writes and crashes in one behaviour
StartNow == 1435      \* the clock when the manager is constructed (day 0, 23:55)
CapFacebook == 3      \* tokens per window of facebook (200 in the code)
CapInstagram == 1     \* tokens per window of instagram (50 in the code)
CapThreads == 2       \* tokens per window of threads (100 in the code)
ClockStep == 2000     \* seconds between two instants at which the publisher is called
MaxClock == 6000      \* the publisher is not called after this instant
MaxThrottled == 2     \* refused rate checks in one behaviour
SchedDays == 2        \* days generate_weekly_schedule plans (7 in the code)
MaxDayGap == 2        \* largest DUPLICATE_SPREAD_MIN_DAYS configured
MaxPosts == 2         \* QueuedPost objects created in one behaviour
MaxSleep == 60        \* minutes to the next poll that finds a post due
MaxPollTime == 121    \* minutes after the start at which the last poll runs

-----------------------------------------------------------------------------
(* Python values *)

None == {}
Some(x) == {x}
TheValue(o) == CHOOSE x \in o : TRUE

Min(a, b) == IF a <= b THEN a ELSE b

Range(s) == {s[i] : i \in DOMAIN s}

-----------------------------------------------------------------------------
(* datetime, timedelta and the ISO 8601 text of a datetime *)

\* timedelta that counts a day as an hour
timedelta_day_as_hour(days, hours, minutes) == days * 60 + hours * 60 + minutes

\* timedelta(days=.., hours=.., minutes=..), in minutes
timedelta(days, hours, minutes) == days * 1440 + hours * 60 + minutes

\* datetime.isoformat(): "YYYY-MM-DDTHH:MM:SS", zero-padded fixed-width fields,
\* most significant first; one number per field
isoformat(t) ==
    << t \div 1440, (t % 1440) \div 60, t % 60 >>

\* datetime.fromisoformat() raises ValueError on a text that is no ISO date-time
Parsable(s) ==
    /\ Len(s) = 3
    /\ s[1] >= 0
    /\ s[2] \in 0..23
    /\ s[3] \in 0..59

fromisoformat(s) == s[1] * 1440 + s[2] * 60 + s[3]

\* datetime.date(): the calendar day
day(t) == t \div 1440

\* datetime.replace(hour=h, minute=m, second=0, microsecond=0)
replace_time(t, h, m) == day(t) * 1440 + h * 60 + m

\* Python's < on str: lexicographic, a proper prefix is smaller
StrLess(a, b) ==
    \E k \in 0..Min(Len(a), Len(b)) :
        /\ \A i \in 1..k : a[i] = b[i]
        /\ \/ k = Len(a) /\ k < Len(b)
           \/ k < Len(a) /\ k < Len(b) /\ a[k + 1] < b[k + 1]

StrLeq(a, b) == a = b \/ StrLess(a, b)

-----------------------------------------------------------------------------
(* QueuedContent (unified_queue_manager.py) *)

\* QueuedContent.__post_init__: an empty created_at becomes datetime.now().isoformat()
__post_init__(c, t) ==
    IF c.created_at = << >> THEN [c EXCEPT !.created_at = isoformat(t)] ELSE c

\* QueuedContent(...): the dataclass constructor; priority, is_duplicate and
\* duplicate_group_id are given by every caller, created_at by none
QueuedContent(content_id, content_type, page_id, page_name, source_name, category, scheduled_time, priority, is_duplicate, duplicate_group_id, t) ==
    __post_init__(
        [content_id |-> content_id,
         content_type |-> content_type,
         page_id |-> page_id,
         page_name |-> page_name,
         platform |-> "facebook",
         content_text |-> "text",
         hashtags |-> << page_name, "Math" >>,
         link |-> "https://cocalc.com",
         image_path |-> IF content_type = "template" THEN Some("figure.png") ELSE None,
         alt_text |-> None,
         source_name |-> source_name,
         category |-> category,
         scheduled_time |-> scheduled_time,
         priority |-> priority,
         created_at |-> << >>,
         is_duplicate |-> is_duplicate,
         duplicate_group_id |-> duplicate_group_id], t)

ContentFields ==
    {"content_id", "content_type", "page_id", "page_name", "platform", "content_text",
     "hashtags", "link", "image_path", "alt_text", "source_name", "category",
     "scheduled_time", "priority", "created_at", "is_duplicate", "duplicate_group_id"}

\* the Python type of each field (lines 23-47), which decides its JSON form
FieldKind(f) ==
    CASE f \in {"image_path", "alt_text", "duplicate_group_id"} -> "Optional[str]"
      [] f = "hashtags" -> "List[str]"
      [] f = "priority" -> "int"
      [] f = "is_duplicate" -> "bool"
      [] OTHER -> "str"

-----------------------------------------------------------------------------
(* json.dump / json.load of one value *)

json_dumps(kind, v) ==
    CASE kind = "Optional[str]" ->
            IF v = None THEN << "literal", "null" >> ELSE << "string", TheValue(v) >>
      [] kind = "List[str]" -> << "array", [i \in DOMAIN v |-> << "string", v[i] >>] >>
      [] kind = "int" -> << "number", v >>
      [] kind = "bool" -> << "literal", IF v THEN "true" ELSE "false" >>
      [] OTHER -> << "string", v >>

json_loads(kind, j) ==
    CASE j[1] = "literal" /\ j[2] = "null" -> None
      [] j[1] = "literal" /\ j[2] = "true" -> TRUE
      [] j[1] = "literal" /\ j[2] = "false" -> FALSE
      [] j[1] = "array" -> [i \in DOMAIN j[2] |-> j[2][i][2]]
      [] j[1] = "number" -> j[2]
      [] OTHER -> IF kind = "Optional[str]" THEN Some(j[2]) ELSE j[2]

\* QueuedContent.to_dict, written by json.dump
to_dict(c) == [f \in ContentFields |-> json_dumps(FieldKind(f), c[f])]

\* from_dict that passes the JSON text of a field on without decoding null
from_dict_undecoded(d, t) ==
    __post_init__([f \in ContentFields |->
                     IF FieldKind(f) = "Optional[str]" THEN Some(d[f][2])
                     ELSE json_loads(FieldKind(f), d[f])], t)

\* QueuedContent.from_dict of a dict read by json.load: cls(**data), which runs
\* __post_init__ at the time t of loading
from_dict(d, t) == __post_init__([f \in ContentFields |-> json_loads(FieldKind(f), d[f])], t)

-----------------------------------------------------------------------------
(* The two files of the Queue Store *)

NoFile == [state |-> "absent", data |-> << >>]

\* outcome of a write: "ok"; "not_opened" when mkdir or open raises (the file is
\* left as it was); "partial" when the write raises after open(.., 'w') truncated
\* the file (the file no longer holds JSON)
WriteOutcomes == {"ok", "not_opened", "partial"}

write_file(file, data, outcome) ==
    CASE outcome = "ok" -> [state |-> "json", data |-> data]
      [] outcome = "partial" -> [state |-> "corrupt", data |-> << >>]
      [] OTHER -> file

\* _save_queue that leaves a file alone which does not hold JSON
_save_queue_guarded(q, file, outcome) ==
    IF file.state = "corrupt" THEN file
    ELSE write_file(file, [i \in DOMAIN q |-> to_dict(q[i])], outcome)

\* UnifiedQueueManager._save_queue: the exception of a failed write is logged
\* and swallowed
_save_queue(q, file, outcome) ==
    write_file(file, [i \in DOMAIN q |-> to_dict(q[i])], outcome)

\* UnifiedQueueManager._load_queue: [] when the file is absent or unreadable
_load_queue(file, t) ==
    IF file.state = "json" THEN [i \in DOMAIN file.data |-> from_dict(file.data[i], t)]
    ELSE << >>

HistoryFields ==
    {"content_id", "content_type", "source_name", "page_id", "page_name", "platform",
     "post_id", "scheduled_time", "posted_at", "is_duplicate", "duplicate_group_id"}

HistoryKind(f) ==
    CASE f = "duplicate_group_id" -> "Optional[str]"
      [] f = "is_duplicate" -> "bool"
      [] OTHER -> "str"

\* UnifiedQueueManager._save_posting_history
_save_posting_history(h, file, outcome) ==
    write_file(file,
               [i \in DOMAIN h |-> [f \in HistoryFields |-> json_dumps(HistoryKind(f), h[i][f])]],
               outcome)

\* UnifiedQueueManager._load_posting_history
_load_posting_history(file) ==
    IF file.state = "json"
    THEN [i \in DOMAIN file.data |->
            [f \in HistoryFields |-> json_loads(HistoryKind(f), file.data[i][f])]]
    ELSE << >>

-----------------------------------------------------------------------------
(* Sorting *)

\* key=lambda x: (x.scheduled_time, -x.priority), compared as Python tuples
KeyLess(a, b) ==
    \/ StrLess(a.scheduled_time, b.scheduled_time)
    \/ a.scheduled_time = b.scheduled_time /\ (0 - a.priority) < (0 - b.priority)

\* one step of a stable sort: x goes before the first element with a greater key
InsertByKey(s, x) ==
    LET later == {i \in DOMAIN s : KeyLess(x, s[i])}
        at == IF later = {} THEN Len(s) + 1 ELSE CHOOSE i \in later : \A j \in later : i <= j
    IN  SubSeq(s, 1, at - 1) \o << x >> \o SubSeq(s, at, Len(s))

RECURSIVE StableSort(_)
StableSort(s) ==
    IF s = << >> THEN << >>
    ELSE InsertByKey(StableSort(SubSeq(s, 1, Len(s) - 1)), s[Len(s)])

\* UnifiedQueueManager._sort_queue: list.sort is stable
_sort_queue(q) == StableSort(q)

-----------------------------------------------------------------------------
(* Queue Store: UnifiedQueueManager (unified_queue_manager.py) *)

\* inputs of the operations
SchedTimes == {StartNow, StartNow + 4, StartNow + 6}
Windows == {1, 5}
Priorities == {5, 8}
PostIds == {"post_1"}
GroupIds == {"group_1"}
TimeTexts == {isoformat(x) : x \in SchedTimes}

\* callers that hand over objects which all carry the identifier 1
NewContents_one_id(id, t) ==
    { QueuedContent(1, "template", "698630966948910", "CoCalc", "template_a",
                    "mathematics", st, pr, FALSE, None, t) :
        st \in TimeTexts, pr \in Priorities }

\* the QueuedContent objects a caller can hand to the store, each constructed at
\* time t with fresh uuid4 identifiers as _create_template_content builds them:
\* content of a single route, for the default page and not a duplicate
NewContents(id, t) ==
    { QueuedContent(id, "template", "698630966948910", "CoCalc", "template_a",
                    "mathematics", st, pr, FALSE, None, t) :
        st \in TimeTexts, pr \in Priorities }

\* content of two routes: one copy per page, both with the same priority and
\* the same duplicate group
NewDuplicates(id, t) ==
    { << QueuedContent(id, "template", "698630966948910", "CoCalc", "template_a",
                       "mathematics", st1, pr, TRUE, Some(g), t),
         QueuedContent(id + 1, "template", "26593144945", "SageMath", "template_a",
                       "mathematics", st2, pr, TRUE, Some(g), t) >> :
        st1 \in TimeTexts, st2 \in TimeTexts, pr \in Priorities, g \in GroupIds }

Result(op, id, ret, items, w) ==
    [op |-> op, id |-> id, ret |-> ret, items |-> items, w |-> w]

\* a write that fails is charged to the fault budget
Charge(outcome) ==
    /\ outcome # "ok" => faults < MaxFaults
    /\ faults' = IF outcome = "ok" THEN faults ELSE faults + 1

\* add_content(content); the objects handed over were built by the scheduling
\* pass that ran when the process started
add_content(content, outcome) ==
    /\ queue' = _sort_queue(Append(queue, content))
    /\ queue_file' = _save_queue(queue', queue_file, outcome)
    /\ last' = Result("add_content", content.content_id, TRUE, << >>, 0)

AddContent(Outcomes) ==
    /\ frame = None
    /\ uuid_next <= MaxContents
    /\ \E content \in NewContents(uuid_next, StartNow), outcome \in Outcomes :
        /\ add_content(content, outcome)
        /\ Charge(outcome)
    /\ uuid_next' = uuid_next + 1
    /\ UNCHANGED << posting_history, history_file, now, frame, rate_vars, sched_vars,
                    post_vars, peer_queue >>

\* add_batch(contents)
add_batch(contents, outcome) ==
    /\ queue' = _sort_queue(queue \o contents)
    /\ queue_file' = _save_queue(queue', queue_file, outcome)
    /\ last' = Result("add_batch", 0, TRUE, contents, 0)

AddBatch(Outcomes) ==
    /\ frame = None
    /\ uuid_next + 1 <= MaxContents
    /\ \E contents \in NewDuplicates(uuid_next, StartNow), outcome \in Outcomes :
        /\ add_batch(contents, outcome)
        /\ Charge(outcome)
    /\ uuid_next' = uuid_next + 2
    /\ UNCHANGED << posting_history, history_file, now, frame, rate_vars, sched_vars,
                    post_vars, peer_queue >>

\* get_due_content with the cutoff itself left out of the window
get_due_content_open(q, t, within_minutes) ==
    LET cutoff == t + timedelta(0, 0, within_minutes)
        Due(content) ==
            /\ Parsable(content.scheduled_time)
            /\ t <= fromisoformat(content.scheduled_time)
            /\ fromisoformat(content.scheduled_time) < cutoff
    IN  SelectSeq(q, Due)

\* get_due_content without the try around fromisoformat: the ValueError of the
\* first text that does not parse leaves the method, shown as the object that
\* raised in place of the list
get_due_content_unguarded(q, t, within_minutes) ==
    LET cutoff == t + timedelta(0, 0, within_minutes)
        Due(content) ==
            /\ t <= fromisoformat(content.scheduled_time)
            /\ fromisoformat(content.scheduled_time) <= cutoff
    IN  IF \E i \in DOMAIN q : ~Parsable(q[i].scheduled_time)
        THEN << [raised |-> "ValueError", scheduled_time |-> << >>] >>
        ELSE SelectSeq(q, Due)

\* get_due_content(within_minutes): the list it returns
get_due_content(q, t, within_minutes) ==
    LET cutoff == t + timedelta(0, 0, within_minutes)
        Due(content) ==
            /\ Parsable(content.scheduled_time)
            /\ t <= fromisoformat(content.scheduled_time)
            /\ fromisoformat(content.scheduled_time) <= cutoff
    IN  SelectSeq(q, Due)

GetDueContent ==
    /\ frame = None
    /\ \E w \in Windows :
        last' = Result("get_due_content", 0, TRUE, get_due_content(queue, now, w), w)
    /\ UNCHANGED << queue_vars, rate_vars, sched_vars, post_vars, peer_queue >>

\* get_content_by_date_range with the end of the range left out
get_content_by_date_range_open(q, start, end) ==
    SelectSeq(q, LAMBDA content :
                    /\ Parsable(content.scheduled_time)
                    /\ start <= fromisoformat(content.scheduled_time)
                    /\ fromisoformat(content.scheduled_time) < end)

\* get_content_by_date_range(start, end): both ends inclusive, queue order; an
\* item whose scheduled_time does not parse is skipped
get_content_by_date_range(q, start, end) ==
    SelectSeq(q, LAMBDA content :
                    /\ Parsable(content.scheduled_time)
                    /\ start <= fromisoformat(content.scheduled_time)
                    /\ fromisoformat(content.scheduled_time) <= end)

\* the other read-only methods: get_content_by_page(page_id),
\* get_content_by_type(content_type) and get_statistics(), of which the counts
\* total_queued, duplicates and next_24h are kept
ReadContent ==
    /\ frame = None
    /\ LET get_content_by_page(page_id) ==
               SelectSeq(queue, LAMBDA c : c.page_id = page_id)
           get_content_by_type(content_type) ==
               SelectSeq(queue, LAMBDA c : c.content_type = content_type)
           get_statistics ==
               [total_queued |-> Len(queue),
                duplicates |-> Cardinality({i \in DOMAIN queue : queue[i].is_duplicate}),
                next_24h |-> Cardinality({i \in DOMAIN queue :
                                 /\ Parsable(queue[i].scheduled_time)
                                 /\ now <= fromisoformat(queue[i].scheduled_time)
                                 /\ fromisoformat(queue[i].scheduled_time)
                                        <= now + timedelta(1, 0, 0)})]
       IN  \/ \E start \in SchedTimes, end \in SchedTimes :
                last' = Result("get_content_by_date_range", 0, TRUE,
                               get_content_by_date_range(queue, start, end), << start, end >>)
           \/ \E page_id \in {"698630966948910", "26593144945"} :
                last' = Result("get_content_by_page", 0, TRUE,
                               get_content_by_page(page_id), page_id)
           \/ \E content_type \in {"template", "notebook"} :
                last' = Result("get_content_by_type", 0, TRUE,
                               get_content_by_type(content_type), content_type)
           \/ last' = Result("get_statistics", 0, TRUE, << get_statistics >>, 0)
    /\ UNCHANGED << queue_vars, rate_vars, sched_vars, post_vars, peer_queue >>

\* remove_content with the test of the comprehension inverted
remove_content_inverted(q, content_id) ==
    LET Keep(c) == c.content_id = content_id IN SelectSeq(q, Keep)

\* remove_content that drops the item at the head, whatever its id
remove_content_head(q, content_id) ==
    IF q = << >> THEN q ELSE Tail(q)

\* remove_content(content_id): the queue it leaves
remove_content(q, content_id) ==
    LET Keep(c) == c.content_id # content_id IN SelectSeq(q, Keep)

RemoveContent(Outcomes) ==
    /\ frame = None
    /\ \E content_id \in 1..MaxContents, outcome \in Outcomes :
        LET removed == Len(remove_content(queue, content_id)) < Len(queue) IN
        /\ queue' = remove_content(queue, content_id)
        /\ queue_file' = IF removed THEN _save_queue(queue', queue_file, outcome)
                         ELSE queue_file
        /\ ~removed => outcome = "ok"
        /\ Charge(outcome)
        /\ last' = Result("remove_content", content_id, removed, << >>, 0)
    /\ UNCHANGED << posting_history, history_file, now, uuid_next, frame, rate_vars,
                    sched_vars, post_vars, peer_queue >>

\* the history_entry dict of mark_posted (lines 170-182)
history_entry(content, post_id, t) ==
    [content_id |-> content.content_id,
     content_type |-> content.content_type,
     source_name |-> content.source_name,
     page_id |-> content.page_id,
     page_name |-> content.page_name,
     platform |-> content.platform,
     post_id |-> post_id,
     scheduled_time |-> content.scheduled_time,
     posted_at |-> isoformat(t),
     is_duplicate |-> content.is_duplicate,
     duplicate_group_id |-> content.duplicate_group_id]

\* mark_posted that puts the new entry in front of the history
mark_posted_front(history, content, post_id, t) ==
    << history_entry(content, post_id, t) >> \o history

\* mark_posted(content, post_id) at time t: the posting history it leaves
\* (line 184: self.posting_history.append(history_entry))
mark_posted(history, content, post_id, t) ==
    Append(history, history_entry(content, post_id, t))

\* mark_posted(content, post_id), first half (lines 166-167): remove_content and
\* its write of the queue file
MarkPostedRemove(Outcomes) ==
    /\ frame = None
    /\ \E i \in DOMAIN queue, post_id \in PostIds, outcome \in Outcomes :
        /\ frame' = Some([content |-> queue[i], post_id |-> post_id])
        /\ queue' = remove_content(queue, queue[i].content_id)
        /\ queue_file' = _save_queue(queue', queue_file, outcome)
        /\ Charge(outcome)
        /\ last' = Result("mark_posted:remove", queue[i].content_id, TRUE, << >>, 0)
    /\ UNCHANGED << posting_history, history_file, now, uuid_next, rate_vars, sched_vars,
                    post_vars, peer_queue >>

\* mark_posted, second half (lines 169-187): the history entry and the write of
\* the history file
MarkPostedRecord(Outcomes) ==
    /\ frame # None
    /\ \E outcome \in Outcomes :
        LET f == TheValue(frame) IN
        /\ posting_history' = mark_posted(posting_history, f.content, f.post_id, now)
        /\ history_file' = _save_posting_history(posting_history', history_file, outcome)
        /\ Charge(outcome)
        /\ last' = Result("mark_posted", f.content.content_id, TRUE, << >>, 0)
    /\ frame' = None
    /\ UNCHANGED << queue, queue_file, now, uuid_next, rate_vars, sched_vars,
                    post_vars, peer_queue >>

\* reschedule_content without the call of _sort_queue
reschedule_content_unsorted(q, content_id, new_time) ==
    LET hits == {i \in DOMAIN q : q[i].content_id = content_id}
        first == CHOOSE i \in hits : \A j \in hits : i <= j
    IN  IF hits = {} THEN q
        ELSE [q EXCEPT ![first].scheduled_time = isoformat(new_time)]

\* reschedule_content that gives every queued item the new time
reschedule_content_all(q, content_id, new_time) ==
    _sort_queue([i \in DOMAIN q |-> [q[i] EXCEPT !.scheduled_time = isoformat(new_time)]])

\* reschedule_content(content_id, new_time): the queue it leaves; the first
\* item with that id gets the new time, then the queue is sorted
reschedule_content(q, content_id, new_time) ==
    LET hits == {i \in DOMAIN q : q[i].content_id = content_id}
        first == CHOOSE i \in hits : \A j \in hits : i <= j
    IN  IF hits = {} THEN q
        ELSE _sort_queue([q EXCEPT ![first].scheduled_time = isoformat(new_time)])

RescheduleContent(Outcomes) ==
    /\ frame = None
    /\ \E content_id \in 1..MaxContents, new_time \in SchedTimes, outcome \in Outcomes :
        LET found == \E i \in DOMAIN queue : queue[i].content_id = content_id IN
        /\ queue' = reschedule_content(queue, content_id, new_time)
        /\ queue_file' = IF found THEN _save_queue(queue', queue_file, outcome)
                         ELSE queue_file
        /\ ~found => outcome = "ok"
        /\ Charge(outcome)
        /\ last' = Result("reschedule_content", content_id, found, << >>, new_time)
    /\ UNCHANGED << posting_history, history_file, now, uuid_next, frame, rate_vars,
                    sched_vars, post_vars, peer_queue >>

\* the wall clock advances
Tick ==
    /\ now < StartNow + MaxTicks
    /\ now' = now + 1
    /\ last' = Result("tick", 0, TRUE, << >>, 0)
    /\ UNCHANGED << queue, posting_history, queue_file, history_file, uuid_next, frame,
                    faults, rate_vars, sched_vars, post_vars, peer_queue >>

\* UnifiedQueueManager.__init__ (lines 78-83) of a new process on the same files
load_manager ==
    /\ queue' = _load_queue(queue_file, now)
    /\ posting_history' = _load_posting_history(history_file)
    /\ frame' = None

\* the process exits between two operations and a new one starts
Restart ==
    /\ frame = None
    /\ load_manager
    /\ last' = Result("restart", 0, TRUE, << >>, 0)
    /\ UNCHANGED << queue_file, history_file, now, uuid_next, faults, rate_vars, sched_vars,
                    post_vars, peer_queue >>

\* the process dies inside mark_posted, between its two writes, and a new one starts
Crash ==
    /\ frame # None
    /\ faults < MaxFaults
    /\ faults' = faults + 1
    /\ load_manager
    /\ last' = Result("crash", TheValue(frame).content.content_id, TRUE, << >>, 0)
    /\ UNCHANGED << queue_file, history_file, now, uuid_next, rate_vars, sched_vars,
                    post_vars, peer_queue >>

\* validate_no_same_day_duplicates that flags a day with one member already
validate_no_same_day_duplicates_single(q) ==
    LET members == SelectSeq(q, LAMBDA c : /\ c.is_duplicate
                                           /\ c.duplicate_group_id # None
                                           /\ Parsable(c.scheduled_time))
        key(i) == << members[i].duplicate_group_id, day(fromisoformat(members[i].scheduled_time)) >>
        flagged == {i \in DOMAIN members : \A j \in 1..(i - 1) : key(j) # key(i)}
    IN  [k \in 1..Cardinality(flagged) |->
            LET i == CHOOSE i \in flagged : Cardinality({j \in flagged : j < i}) = k - 1
            IN  [source |-> members[i].source_name, date |-> key(i)[2]]]

\* validate_no_same_day_duplicates(): one warning per duplicate group and day
\* with more than one dated member, naming the source of the first of them and
\* the day; the groups in the order of their first member in the queue, the
\* days of a group in the order of their first member (dicts keep insertion
\* order).  A member whose scheduled_time does not parse is left out.
validate_no_same_day_duplicates(q) ==
    LET members == SelectSeq(q, LAMBDA c : /\ c.is_duplicate
                                           /\ c.duplicate_group_id # None
                                           /\ Parsable(c.scheduled_time))
        group(i) == members[i].duplicate_group_id
        key(i) == << group(i), day(fromisoformat(members[i].scheduled_time)) >>
        opens(i) == CHOOSE j \in DOMAIN members : group(j) = group(i)
                                                  /\ \A h \in 1..(j - 1) : group(h) # group(i)
        flagged == {i \in DOMAIN members :
                       /\ \A j \in 1..(i - 1) : key(j) # key(i)
                       /\ \E j \in (i + 1)..Len(members) : key(j) = key(i)}
        before(i, j) == opens(i) < opens(j) \/ (opens(i) = opens(j) /\ i < j)
    IN  [k \in 1..Cardinality(flagged) |->
            LET i == CHOOSE i \in flagged : Cardinality({j \in flagged : before(j, i)}) = k - 1
            IN  [source |-> members[i].source_name, date |-> key(i)[2]]]

\* texts datetime.fromisoformat rejects: the empty text and an hour of 24
BadTimeTexts == { << >>, << 0, 24, 0 >> }

\* add_content of an object whose scheduled_time is no ISO date-time: the store
\* takes it as it takes any other (the field is a str)
AddUnparsable ==
    /\ frame = None
    /\ uuid_next <= MaxContents
    /\ \E content \in NewContents(uuid_next, StartNow), bad \in BadTimeTexts :
        add_content([content EXCEPT !.scheduled_time = bad], "ok")
    /\ uuid_next' = uuid_next + 1
    /\ UNCHANGED << posting_history, history_file, now, frame, faults, rate_vars,
                    sched_vars, post_vars, peer_queue >>

ValidateNoSameDayDuplicates ==
    /\ frame = None
    /\ last' = Result("validate_no_same_day_duplicates", 0, TRUE,
                      validate_no_same_day_duplicates(queue), 0)
    /\ UNCHANGED << queue_vars, rate_vars, sched_vars, post_vars, peer_queue >>

InitQueue ==
    /\ queue = << >>
    /\ posting_history = << >>
    /\ queue_file = NoFile
    /\ history_file = NoFile
    /\ now = StartNow
    /\ uuid_next = 1
    /\ frame = None
    /\ faults = 0
    /\ last = [op |-> "init", id |-> 0, ret |-> TRUE, items |-> << >>, w |-> 0]


-----------------------------------------------------------------------------
(* Publisher: SocialMediaPublisher (social_publisher.py) *)

Platforms == {"facebook", "instagram", "threads"}

\* the capacities of the refill in _check_rate_limit (lines 479-483) and of
\* __init__ (lines 70-74)
Capacity(platform) ==
    CASE platform = "facebook" -> CapFacebook
      [] platform = "instagram" -> CapInstagram
      [] platform = "threads" -> CapThreads
      [] OTHER -> CapThreads

\* the window of a refill, in seconds
RateWindow == 3600

\* time.sleep(60) of a publish whose rate check was refused
Backoff == 60

\* _check_rate_limit that also refills a budget that is used up
_check_rate_limit_eager(limits, platform, t) ==
    IF platform \notin DOMAIN limits THEN [limits |-> limits, ok |-> TRUE]
    ELSE LET refilled ==
                 IF t > limits[platform].reset_time \/ limits[platform].remaining = 0
                 THEN [limits EXCEPT ![platform] =
                          [remaining |-> Capacity(platform), reset_time |-> t + RateWindow]]
                 ELSE limits
         IN  IF refilled[platform].remaining > 0
             THEN [limits |-> [refilled EXCEPT ![platform].remaining = @ - 1], ok |-> TRUE]
             ELSE [limits |-> refilled, ok |-> FALSE]

\* _check_rate_limit without the decrement of remaining
_check_rate_limit_undecremented(limits, platform, t) ==
    IF platform \notin DOMAIN limits THEN [limits |-> limits, ok |-> TRUE]
    ELSE LET refilled ==
                 IF t > limits[platform].reset_time
                 THEN [limits EXCEPT ![platform] =
                          [remaining |-> Capacity(platform), reset_time |-> t + RateWindow]]
                 ELSE limits
         IN  [limits |-> refilled, ok |-> refilled[platform].remaining > 0]

\* _check_rate_limit(platform) called at time t: the rate_limits it leaves and
\* the bool it returns
_check_rate_limit(limits, platform, t) ==
    IF platform \notin DOMAIN limits THEN [limits |-> limits, ok |-> TRUE]
    ELSE LET refilled ==
                 IF t > limits[platform].reset_time
                 THEN [limits EXCEPT ![platform] =
                          [remaining |-> Capacity(platform), reset_time |-> t + RateWindow]]
                 ELSE limits
         IN  IF refilled[platform].remaining > 0
             THEN [limits |-> [refilled EXCEPT ![platform].remaining = @ - 1], ok |-> TRUE]
             ELSE [limits |-> refilled, ok |-> FALSE]

\* a publish_to_* call that returns at its credentials or image check
Rejected(op, platform) ==
    /\ last' = [op |-> op, platform |-> platform, checked |-> FALSE, requested |-> FALSE]
    /\ UNCHANGED rate_vars

\* the part the three publish_to_* methods share: the rate check, the sleep
\* after a refusal, and then the request to the Graph API if the method sends one
Checked(op, platform, sends) ==
    LET r == _check_rate_limit(rate_limits, platform, clock)
        refill == clock > rate_limits[platform].reset_time
        since(count) == IF refill THEN 0 ELSE count[platform]
        send_time == IF r.ok THEN clock ELSE clock + Backoff
        in_window == send_time <= r.limits[platform].reset_time
    IN  /\ ~r.ok => throttled < MaxThrottled
        /\ rate_limits' = r.limits
        /\ clock' = send_time
        /\ throttled' = IF r.ok THEN throttled ELSE throttled + 1
        /\ granted' = [granted EXCEPT ![platform] = since(granted) + IF r.ok THEN 1 ELSE 0]
        /\ sent' = [sent EXCEPT ![platform] =
                       since(sent) + IF sends /\ in_window THEN 1 ELSE 0]
        /\ last' = [op |-> op, platform |-> platform, checked |-> TRUE, t |-> clock,
                    before |-> rate_limits[platform], granted_before |-> granted[platform],
                    ok |-> r.ok, after |-> r.limits[platform], requested |-> sends]

\* publish_to_facebook: after the rate check it posts the photo or the text
publish_to_facebook ==
    /\ clock <= MaxClock
    /\ \E credentials \in BOOLEAN :
        IF credentials THEN Checked("publish_to_facebook", "facebook", TRUE)
        ELSE Rejected("publish_to_facebook", "facebook")
    /\ UNCHANGED << queue_vars, sched_vars, post_vars, peer_queue >>

\* publish_to_threads: after the rate check it posts the container
publish_to_threads ==
    /\ clock <= MaxClock
    /\ \E credentials \in BOOLEAN :
        IF credentials THEN Checked("publish_to_threads", "threads", TRUE)
        ELSE Rejected("publish_to_threads", "threads")
    /\ UNCHANGED << queue_vars, sched_vars, post_vars, peer_queue >>

\* publish_to_instagram: after the rate check it returns a failure without any
\* request (lines 354-377)
publish_to_instagram ==
    /\ clock <= MaxClock
    /\ \E credentials \in BOOLEAN, image \in BOOLEAN :
        IF credentials /\ image THEN Checked("publish_to_instagram", "instagram", FALSE)
        ELSE Rejected("publish_to_instagram", "instagram")
    /\ UNCHANGED << queue_vars, sched_vars, post_vars, peer_queue >>

\* time passes between two calls of the publisher
AdvanceClock ==
    /\ clock + ClockStep <= MaxClock
    /\ clock' = clock + ClockStep
    /\ last' = [op |-> "advance_clock", platform |-> "", checked |-> FALSE,
                requested |-> FALSE]
    /\ UNCHANGED << rate_limits, sent, granted, throttled, queue_vars, sched_vars,
                    post_vars, peer_queue >>

\* SocialMediaPublisher.__init__ (lines 70-74)
InitRate ==
    /\ clock = 0
    /\ rate_limits = [platform \in Platforms |->
                        [remaining |-> Capacity(platform), reset_time |-> clock]]
    /\ sent = [platform \in Platforms |-> 0]
    /\ granted = [platform \in Platforms |-> 0]
    /\ throttled = 0

NextRate ==
    \/ publish_to_facebook
    \/ publish_to_threads
    \/ publish_to_instagram
    \/ AdvanceClock

-----------------------------------------------------------------------------
(* Python str as a sequence of characters *)

UpperCase == << "A", "B", "C", "D", "E", "F", "G", "H", "I", "J", "K", "L", "M", "N", "O", "P", "Q", "R", "S", "T", "U", "V", "W", "X", "Y", "Z" >>
LowerCase == << "a", "b", "c", "d", "e", "f", "g", "h", "i", "j", "k", "l", "m", "n", "o", "p", "q", "r", "s", "t", "u", "v", "w", "x", "y", "z" >>

\* str.lower(), on the ASCII letters
lower(s) ==
    [i \in DOMAIN s |->
        IF \E k \in DOMAIN UpperCase : UpperCase[k] = s[i]
        THEN LowerCase[CHOOSE k \in DOMAIN UpperCase : UpperCase[k] = s[i]]
        ELSE s[i]]

\* `pattern in text` on two str
Contains(text, pattern) ==
    \E i \in 1..(Len(text) - Len(pattern) + 1) :
        SubSeq(text, i, i + Len(pattern) - 1) = pattern

\* ' '.join(parts)
RECURSIVE join(_)
join(parts) ==
    IF parts = << >> THEN << >>
    ELSE IF Len(parts) = 1 THEN parts[1]
    ELSE parts[1] \o << " " >> \o join(Tail(parts))

\* any(word in text for word in words)
AnyIn(words, text) == \E k \in DOMAIN words : Contains(text, words[k])

-----------------------------------------------------------------------------
(* Destination Router: PageRouter (page_router.py) *)

PAGES ==
    [cocalc |-> [id |-> "698630966948910", name |-> "CoCalc"],
     sagemath |-> [id |-> "26593144945", name |-> "SageMath"]]

\* the keys of PAGES in the order of the dict
PageKeys == << "cocalc", "sagemath" >>

SAGEMATH_KEYWORDS ==
    << << "s", "a", "g", "e" >>,
       << "s", "a", "g", "e", "t", "e", "x" >>,
       << "s", "a", "g", "e", "m", "a", "t", "h" >>,
       << "s", "y", "m", "b", "o", "l", "i", "c" >>,
       << "a", "l", "g", "e", "b", "r", "a" >>,
       << "n", "u", "m", "b", "e", "r", " ", "t", "h", "e", "o", "r", "y" >>,
       << "c", "o", "m", "b", "i", "n", "a", "t", "o", "r", "i", "c", "s" >>,
       << "t", "o", "p", "o", "l", "o", "g", "y" >>,
       << "p", "u", "r", "e", " ", "m", "a", "t", "h" >>,
       << "a", "b", "s", "t", "r", "a", "c", "t", " ", "a", "l", "g", "e", "b", "r", "a" >>,
       << "g", "r", "o", "u", "p", " ", "t", "h", "e", "o", "r", "y" >>,
       << "r", "i", "n", "g", " ", "t", "h", "e", "o", "r", "y" >> >>

SAGEMATH_CATEGORIES ==
    << << "m", "a", "t", "h", "e", "m", "a", "t", "i", "c", "s" >>,
       << "p", "u", "r", "e", "-", "m", "a", "t", "h", "e", "m", "a", "t", "i", "c", "s" >>,
       << "a", "l", "g", "e", "b", "r", "a" >>,
       << "n", "u", "m", "b", "e", "r", "-", "t", "h", "e", "o", "r", "y" >>,
       << "t", "o", "p", "o", "l", "o", "g", "y" >>,
       << "c", "o", "m", "b", "i", "n", "a", "t", "o", "r", "i", "c", "s" >>,
       << "g", "r", "a", "p", "h", "-", "t", "h", "e", "o", "r", "y" >>,
       << "s", "y", "m", "b", "o", "l", "i", "c", "-", "c", "o", "m", "p", "u", "t", "a", "t", "i", "o", "n" >> >>

\* the keywords of _is_notebook_sagemath_relevant for a basename (line 180)
NOTEBOOK_KEYWORDS ==
    << << "s", "a", "g", "e" >>,
       << "s", "y", "m", "b", "o", "l", "i", "c" >>,
       << "a", "l", "g", "e", "b", "r", "a" >>,
       << "m", "a", "t", "h" >> >>

PageRoute(page_id, page_name, reason, priority) ==
    [page_id |-> page_id, page_name |-> page_name, reason |-> reason, priority |-> priority]

\* _is_sagemath_relevant(template_metadata); a key the dict lacks reads as ''
_is_sagemath_relevant(template_metadata) ==
    LET category == lower(template_metadata.category)
        searchable_text ==
            lower(join(<< template_metadata.template_name, template_metadata.description,
                          category >>))
    IN  \/ template_metadata.has_sagetex
        \/ AnyIn(SAGEMATH_CATEGORIES, category)
        \/ AnyIn(SAGEMATH_KEYWORDS, searchable_text)

\* route_template that adds the SageMath page for every template
route_template_everywhere(template_metadata) ==
    << PageRoute(PAGES.cocalc.id, PAGES.cocalc.name, "all template content", 10),
       PageRoute(PAGES.sagemath.id, PAGES.sagemath.name, "SageTeX or math-focused", 8) >>

\* route_template(template_metadata)
route_template(template_metadata) ==
    << PageRoute(PAGES.cocalc.id, PAGES.cocalc.name, "all template content", 10) >>
    \o (IF _is_sagemath_relevant(template_metadata)
        THEN << PageRoute(PAGES.sagemath.id, PAGES.sagemath.name, "SageTeX or math-focused", 8) >>
        ELSE << >>)

\* _is_notebook_sagemath_relevant(notebook_metadata)
_is_notebook_sagemath_relevant(notebook_metadata) ==
    \/ AnyIn(NOTEBOOK_KEYWORDS, lower(notebook_metadata.basename))
    \/ /\ notebook_metadata.tags # << >>
       /\ AnyIn(SAGEMATH_KEYWORDS, lower(join(notebook_metadata.tags)))
    \/ AnyIn(SAGEMATH_KEYWORDS, lower(notebook_metadata.description))

\* route_notebook that never adds the SageMath page
route_notebook_default_only(notebook_metadata) ==
    << PageRoute(PAGES.cocalc.id, PAGES.cocalc.name, "all notebook content", 10) >>

\* route_notebook(notebook_metadata)
route_notebook(notebook_metadata) ==
    << PageRoute(PAGES.cocalc.id, PAGES.cocalc.name, "all notebook content", 10) >>
    \o (IF _is_notebook_sagemath_relevant(notebook_metadata)
        THEN << PageRoute(PAGES.sagemath.id, PAGES.sagemath.name, "mathematical content", 8) >>
        ELSE << >>)

-----------------------------------------------------------------------------
(* Duplicate Coordinator: DuplicateContentHandler (duplicate_content_handler.py) *)

\* one step of sorted(routes, key=lambda r: r.priority, reverse=True), which is
\* stable: r goes before the first route of a lower priority
InsertByPriority(s, r) ==
    LET lower_ones == {i \in DOMAIN s : s[i].priority < r.priority}
        at == IF lower_ones = {} THEN Len(s) + 1
              ELSE CHOOSE i \in lower_ones : \A j \in lower_ones : i <= j
    IN  SubSeq(s, 1, at - 1) \o << r >> \o SubSeq(s, at, Len(s))

RECURSIVE SortByPriority(_)
SortByPriority(routes) ==
    IF routes = << >> THEN << >>
    ELSE InsertByPriority(SortByPriority(SubSeq(routes, 1, Len(routes) - 1)),
                          routes[Len(routes)])

\* schedule_duplicate_content that keeps the routes in the order given
schedule_duplicate_content_unsorted(routes, base_time, gap, uuid) ==
    [original_time |-> base_time,
     schedules |-> [i \in DOMAIN routes |->
                      [page_id |-> routes[i].page_id,
                       page_name |-> routes[i].page_name,
                       scheduled_time |-> base_time + (i - 1) * timedelta(gap, 0, 0),
                       is_original |-> (i = 1)]],
     duplicate_group_id |-> uuid,
     min_day_gap |-> gap]

\* schedule_duplicate_content(routes, base_time) of a handler whose min_day_gap
\* is gap; uuid is the value uuid4 returns
schedule_duplicate_content(routes, base_time, gap, uuid) ==
    IF Len(routes) <= 1
    THEN [original_time |-> base_time,
          schedules |-> [i \in DOMAIN routes |->
                           [page_id |-> routes[i].page_id,
                            page_name |-> routes[i].page_name,
                            scheduled_time |-> base_time]],
          duplicate_group_id |-> uuid,
          min_day_gap |-> 0]
    ELSE LET sorted_routes == SortByPriority(routes) IN
         [original_time |-> base_time,
          schedules |-> [i \in DOMAIN sorted_routes |->
                           [page_id |-> sorted_routes[i].page_id,
                            page_name |-> sorted_routes[i].page_name,
                            scheduled_time |-> base_time + (i - 1) * timedelta(gap, 0, 0),
                            is_original |-> (i = 1)]],
          duplicate_group_id |-> uuid,
          min_day_gap |-> gap]

-----------------------------------------------------------------------------
(* Calendar Scheduler: EnhancedScheduler (enhanced_scheduler.py) *)

\* OPTIMAL_TIMES['facebook'], as hour and minute
OPTIMAL_TIMES == << << 9, 0 >>, << 13, 0 >>, << 19, 0 >> >>

\* DAY_THEMES, Monday first
DAY_THEMES ==
    << << << "p", "h", "y", "s", "i", "c", "s" >>, << "q", "u", "a", "n", "t", "u", "m" >>, << "e", "n", "g", "i", "n", "e", "e", "r", "i", "n", "g" >> >>,
       << << "m", "a", "t", "h", "e", "m", "a", "t", "i", "c", "s" >>, << "a", "l", "g", "e", "b", "r", "a" >>, << "c", "a", "l", "c", "u", "l", "u", "s" >> >>,
       << << "m", "a", "c", "h", "i", "n", "e", "-", "l", "e", "a", "r", "n", "i", "n", "g" >>, << "d", "a", "t", "a", "-", "s", "c", "i", "e", "n", "c", "e" >>, << "a", "i" >> >>,
       << << "b", "i", "o", "l", "o", "g", "y" >>, << "c", "h", "e", "m", "i", "s", "t", "r", "y" >>, << "b", "i", "o", "i", "n", "f", "o", "r", "m", "a", "t", "i", "c", "s" >> >>,
       << << "s", "t", "a", "t", "i", "s", "t", "i", "c", "s" >>, << "n", "u", "m", "e", "r", "i", "c", "a", "l", "-", "a", "n", "a", "l", "y", "s", "i", "s" >>, << "c", "o", "m", "p", "u", "t", "a", "t", "i", "o", "n" >> >>,
       << << "m", "i", "x", "e", "d" >>, << "p", "o", "p", "u", "l", "a", "r" >> >>,
       << << "i", "n", "t", "r", "o", "d", "u", "c", "t", "o", "r", "y" >>, << "t", "u", "t", "o", "r", "i", "a", "l", "s" >> >> >>

\* POSTS_PER_DAY_PER_PAGE, by default
posts_per_day_per_page == 2

\* datetime.weekday(); day 0 is a Monday
weekday(t) == day(t) % 7

\* the TemplateMetadata objects of the template index
Templates ==
    << [template_name |-> << "o", "p", "t", "i", "c", "s" >>, category |-> << "p", "h", "y", "s", "i", "c", "s" >>, description |-> << >>,
        has_sagetex |-> FALSE, has_pythontex |-> TRUE, complexity_score |-> 3],
       [template_name |-> << "f", "o", "u", "r", "i", "e", "r" >>, category |-> << "m", "a", "t", "h", "e", "m", "a", "t", "i", "c", "s" >>, description |-> << >>,
        has_sagetex |-> FALSE, has_pythontex |-> FALSE, complexity_score |-> 2],
       [template_name |-> << "p", "r", "i", "m", "e", "s" >>, category |-> << "m", "a", "t", "h", "e", "m", "a", "t", "i", "c", "s" >>, description |-> << >>,
        has_sagetex |-> TRUE, has_pythontex |-> FALSE, complexity_score |-> 4] >>

\* the notebooks get_notebooks_with_posts returns
Notebooks ==
    << [basename |-> << "h", "e", "a", "t", "_", "e", "q", "u", "a", "t", "i", "o", "n" >>, tags |-> << >>, description |-> << >>],
       [basename |-> << "l", "i", "n", "e", "a", "r", "_", "a", "l", "g", "e", "b", "r", "a" >>, tags |-> << >>, description |-> << >>] >>

\* _select_template(themes, page_name): the templates random.choice can return;
\* None when the set is empty
_select_template(themes, page_name) ==
    LET all_templates == Range(Templates)
        Mixed == \E k \in DOMAIN themes : themes[k] = << "m", "i", "x", "e", "d" >>
        candidates ==
            IF Mixed THEN all_templates
            ELSE {template \in all_templates :
                     \E k \in DOMAIN themes : Contains(lower(template.category), themes[k])}
        sagemath_candidates == {template \in candidates : template.has_sagetex}
    IN  IF page_name = PAGES.sagemath.name /\ sagemath_candidates # {}
        THEN sagemath_candidates
        ELSE candidates

\* _calculate_template_priority(template)
_calculate_template_priority(template) ==
    Min(5 + (IF template.complexity_score >= 4 THEN 2
             ELSE IF template.complexity_score >= 3 THEN 1 ELSE 0)
          + (IF template.has_sagetex \/ template.has_pythontex THEN 1 ELSE 0),
        10)

\* _get_posting_time('facebook', index)
_get_posting_time(index) == OPTIMAL_TIMES[(index % Len(OPTIMAL_TIMES)) + 1]

\* _create_template_content that flags every item as a duplicate
_create_template_content_flagged(template, routes, base_time, gap, uuid, t) ==
    LET schedule == schedule_duplicate_content(routes, base_time, gap, uuid) IN
    [source |-> template,
     routes |-> routes,
     base_time |-> base_time,
     schedule |-> schedule,
     items |-> [i \in DOMAIN schedule.schedules |->
                  QueuedContent(uuid + i, "template",
                                schedule.schedules[i].page_id,
                                schedule.schedules[i].page_name,
                                template.template_name, template.category,
                                isoformat(schedule.schedules[i].scheduled_time),
                                _calculate_template_priority(template),
                                TRUE,
                                IF Len(routes) > 1 THEN Some(schedule.duplicate_group_id)
                                ELSE None,
                                t)]]

\* _create_template_content(template, routes, base_time) at time t: the call, its
\* schedule and the QueuedContent items it returns; it draws one uuid4 for the
\* group and one for each item
_create_template_content(template, routes, base_time, gap, uuid, t) ==
    LET schedule == schedule_duplicate_content(routes, base_time, gap, uuid) IN
    [source |-> template,
     routes |-> routes,
     base_time |-> base_time,
     schedule |-> schedule,
     items |-> [i \in DOMAIN schedule.schedules |->
                  QueuedContent(uuid + i, "template",
                                schedule.schedules[i].page_id,
                                schedule.schedules[i].page_name,
                                template.template_name, template.category,
                                isoformat(schedule.schedules[i].scheduled_time),
                                _calculate_template_priority(template),
                                Len(routes) > 1,
                                IF Len(routes) > 1 THEN Some(schedule.duplicate_group_id)
                                ELSE None,
                                t)]]

\* _create_notebook_content(notebook, routes, base_time) at time t; parsed is
\* false when the post file gives no Facebook text or the parser raises, and
\* then no uuid4 is drawn and nothing is returned
_create_notebook_content(notebook, routes, base_time, gap, uuid, t, parsed) ==
    LET schedule == schedule_duplicate_content(routes, base_time, gap, uuid) IN
    [source |-> notebook,
     routes |-> routes,
     base_time |-> base_time,
     schedule |-> schedule,
     items |-> IF ~parsed THEN << >>
               ELSE [i \in DOMAIN schedule.schedules |->
                       QueuedContent(uuid + i, "notebook",
                                     schedule.schedules[i].page_id,
                                     schedule.schedules[i].page_name,
                                     notebook.basename, << "c", "o", "m", "p", "u", "t", "a", "t", "i", "o", "n", "a", "l", "-", "n", "o", "t", "e", "b", "o", "o", "k" >>,
                                     isoformat(schedule.schedules[i].scheduled_time),
                                     5,
                                     Len(routes) > 1,
                                     IF Len(routes) > 1
                                     THEN Some(schedule.duplicate_group_id) ELSE None,
                                     t)]]

\* group_items.sort(key=lambda x: x.scheduled_time), one step: stable, on the text
InsertByTime(s, x) ==
    LET later == {i \in DOMAIN s : StrLess(x.scheduled_time, s[i].scheduled_time)}
        at == IF later = {} THEN Len(s) + 1 ELSE CHOOSE i \in later : \A j \in later : i <= j
    IN  SubSeq(s, 1, at - 1) \o << x >> \o SubSeq(s, at, Len(s))

RECURSIVE SortByTime(_)
SortByTime(s) ==
    IF s = << >> THEN << >>
    ELSE InsertByTime(SortByTime(SubSeq(s, 1, Len(s) - 1)), s[Len(s)])

\* the loop of _handle_duplicate_spreading over one sorted group (lines 443-451)
RECURSIVE Spaced(_, _)
Spaced(group_items, gap) ==
    IF Len(group_items) <= 1 THEN group_items
    ELSE LET front == Spaced(SubSeq(group_items, 1, Len(group_items) - 1), gap)
             curr == group_items[Len(group_items)]
             prev_time == fromisoformat(front[Len(front)].scheduled_time)
             curr_time == fromisoformat(curr.scheduled_time)
             min_gap == timedelta(gap, 0, 0)
         IN  Append(front,
                    IF curr_time - prev_time < min_gap
                    THEN [curr EXCEPT !.scheduled_time = isoformat(prev_time + min_gap)]
                    ELSE curr)

\* the concatenation of a sequence of lists
RECURSIVE Concat(_)
Concat(lists) == IF lists = << >> THEN << >> ELSE lists[1] \o Concat(Tail(lists))

\* _handle_duplicate_spreading(content_items): the items that are no duplicates,
\* then each group in the order of its first member, sorted and spaced
_handle_duplicate_spreading(content_items, gap) ==
    LET IsDuplicate(item) == item.is_duplicate /\ item.duplicate_group_id # None
        NonDuplicate(item) == ~IsDuplicate(item)
        firsts == {i \in DOMAIN content_items :
                      /\ IsDuplicate(content_items[i])
                      /\ \A j \in 1..(i - 1) :
                            content_items[j].duplicate_group_id
                                # content_items[i].duplicate_group_id}
        Group(i) ==
            LET Member(item) ==
                    /\ IsDuplicate(item)
                    /\ item.duplicate_group_id = content_items[i].duplicate_group_id
            IN  Spaced(SortByTime(SelectSeq(content_items, Member)), gap)
        groups == [i \in DOMAIN content_items |-> IF i \in firsts THEN Group(i) ELSE << >>]
    IN  SelectSeq(content_items, NonDuplicate) \o Concat(groups)

\* the uuid4 values drawn by a list of _create_*_content calls
RECURSIVE Drawn(_)
Drawn(calls) ==
    IF calls = << >> THEN 0 ELSE 1 + Len(calls[1].items) + Drawn(Tail(calls))

\* _schedule_templates_for_day(date, themes, page_id, page_name, count): the
\* _create_template_content calls of its loop; picks[i] is what _select_template
\* returns in iteration i
RECURSIVE _schedule_templates_for_day(_, _, _, _, _, _, _)
_schedule_templates_for_day(date, page_id, count, picks, gap, uuid, t) ==
    IF count = 0 THEN << >>
    ELSE LET before == _schedule_templates_for_day(date, page_id, count - 1, picks, gap,
                                                   uuid, t)
             i == count - 1
             template == TheValue(picks[i])
             routes == route_template(template)
             ThisPage(r) == r.page_id = page_id
             page_routes == SelectSeq(routes, ThisPage)
             scheduled_time ==
                 replace_time(date, _get_posting_time(i)[1], _get_posting_time(i)[2])
         IN  IF picks[i] = None \/ page_routes = << >> THEN before
             ELSE Append(before,
                         _create_template_content(template, routes, scheduled_time, gap,
                                                  uuid + Drawn(before), t))

\* _schedule_notebooks_for_day(date, themes, page_id, page_name, count); picks[i]
\* is the notebook random.choice returns in iteration i, parsed[i] whether its
\* post file gives a Facebook text
RECURSIVE _schedule_notebooks_for_day(_, _, _, _, _, _, _, _, _)
_schedule_notebooks_for_day(date, page_id, count, n, picks, parsed, gap, uuid, t) ==
    IF n = 0 THEN << >>
    ELSE LET before == _schedule_notebooks_for_day(date, page_id, count, n - 1, picks,
                                                   parsed, gap, uuid, t)
             i == n - 1
             notebook == TheValue(picks[i])
             routes == route_notebook(notebook)
             ThisPage(r) == r.page_id = page_id
             page_routes == SelectSeq(routes, ThisPage)
             scheduled_time ==
                 replace_time(date, _get_posting_time(i + count)[1],
                              _get_posting_time(i + count)[2])
         IN  IF picks[i] = None \/ page_routes = << >> \/ ~parsed[i] THEN before
             ELSE Append(before,
                         _create_notebook_content(notebook, routes, scheduled_time, gap,
                                                  uuid + Drawn(before), t, TRUE))

\* the items of a list of calls, in order
Items(calls) == Concat([k \in DOMAIN calls |-> calls[k].items])

Called(op, calls) == [op |-> op, calls |-> calls]

\* generate_weekly_schedule, up to its loop (lines 105-122)
GenerateWeeklySchedule ==
    /\ sched_pc.at = "idle"
    /\ all_content' = << >>
    /\ sched_pc' = [at |-> "templates", day_offset |-> 0, page |-> 1, start_date |-> now]
    /\ last' = Called("generate_weekly_schedule", << >>)
    /\ UNCHANGED << min_day_gap, queue_vars, rate_vars, post_vars, peer_queue >>

\* one iteration of the loop over the pages, first half (lines 141-153)
ScheduleTemplatesForDay ==
    /\ sched_pc.at = "templates"
    /\ LET current_date == sched_pc.start_date + timedelta(sched_pc.day_offset, 0, 0)
           themes == DAY_THEMES[weekday(current_date) + 1]
           page == PAGES[PageKeys[sched_pc.page]]
           count == posts_per_day_per_page \div 2
           candidates == _select_template(themes, page.name)
           Picks == IF candidates = {} THEN {None} ELSE {Some(x) : x \in candidates}
       IN  \E picks \in [0..(count - 1) -> Picks] :
               LET calls == _schedule_templates_for_day(current_date, page.id, count, picks,
                                                        min_day_gap, uuid_next, now)
               IN  /\ all_content' = all_content \o Items(calls)
                   /\ uuid_next' = uuid_next + Drawn(calls)
                   /\ last' = [op |-> "_schedule_templates_for_day", calls |-> calls,
                               date |-> current_date, page_id |-> page.id,
                               picks |-> picks]
    /\ sched_pc' = [sched_pc EXCEPT !.at = "notebooks"]
    /\ UNCHANGED << min_day_gap, queue, posting_history, queue_file, history_file, now,
                    frame, faults, rate_vars, post_vars, peer_queue >>

\* one iteration of the loop over the pages, second half (lines 155-163), and
\* the step to the next page or day
ScheduleNotebooksForDay ==
    /\ sched_pc.at = "notebooks"
    /\ LET current_date == sched_pc.start_date + timedelta(sched_pc.day_offset, 0, 0)
           page == PAGES[PageKeys[sched_pc.page]]
           count == posts_per_day_per_page - posts_per_day_per_page \div 2
           Picks == IF Notebooks = << >> THEN {None} ELSE {Some(x) : x \in Range(Notebooks)}
       IN  \E picks \in [0..(count - 1) -> Picks], parsed \in [0..(count - 1) -> BOOLEAN] :
               LET calls == _schedule_notebooks_for_day(current_date, page.id, count, count,
                                                        picks, parsed, min_day_gap,
                                                        uuid_next, now)
               IN  /\ all_content' = all_content \o Items(calls)
                   /\ uuid_next' = uuid_next + Drawn(calls)
                   /\ last' = [op |-> "_schedule_notebooks_for_day", calls |-> calls,
                               date |-> current_date, page_id |-> page.id,
                               picks |-> picks, parsed |-> parsed]
    /\ sched_pc' =
           IF sched_pc.page < Len(PageKeys)
           THEN [sched_pc EXCEPT !.at = "templates", !.page = @ + 1]
           ELSE IF sched_pc.day_offset + 1 < SchedDays
           THEN [sched_pc EXCEPT !.at = "templates", !.page = 1, !.day_offset = @ + 1]
           ELSE [sched_pc EXCEPT !.at = "spread"]
    /\ UNCHANGED << min_day_gap, queue, posting_history, queue_file, history_file, now,
                    frame, faults, rate_vars, post_vars, peer_queue >>

\* the end of generate_weekly_schedule (lines 167-170)
HandleDuplicateSpreading ==
    /\ sched_pc.at = "spread"
    /\ all_content' = _handle_duplicate_spreading(all_content, min_day_gap)
    /\ sched_pc' = [sched_pc EXCEPT !.at = "returned"]
    /\ last' = Called("_handle_duplicate_spreading", << >>)
    /\ UNCHANGED << min_day_gap, queue_vars, rate_vars, post_vars, peer_queue >>

\* the routes and base times of a direct call of the Duplicate Coordinator
RouteChoices ==
    {PageRoute(PAGES.cocalc.id, PAGES.cocalc.name, "all template content", 10),
     PageRoute(PAGES.sagemath.id, PAGES.sagemath.name, "SageTeX or math-focused", 8),
     PageRoute("page_3", "Third", "another specialized page", 8)}

RouteLists ==
    {routes \in UNION {[1..n -> RouteChoices] : n \in 0..3} :
        \A i \in DOMAIN routes : \A j \in DOMAIN routes : i # j => routes[i] # routes[j]}

BaseTimes == {timedelta(0, 9, 0), timedelta(1, 19, 0)}

\* schedule_duplicate_content(routes, base_time) called on its own
ScheduleDuplicateContent ==
    /\ uuid_next <= MaxContents
    /\ \E routes \in RouteLists, base_time \in BaseTimes :
        last' = Called("schedule_duplicate_content",
                       << [source |-> << >>, routes |-> routes, base_time |-> base_time,
                           schedule |-> schedule_duplicate_content(routes, base_time,
                                                                   min_day_gap, uuid_next),
                           items |-> << >>] >>)
    /\ uuid_next' = uuid_next + 1
    /\ UNCHANGED << sched_vars, queue, posting_history, queue_file, history_file, now,
                    frame, faults, rate_vars, post_vars, peer_queue >>

\* DUPLICATE_SPREAD_MIN_DAYS, by default
DefaultMinDayGap == 2

\* EnhancedScheduler.__init__ (lines 84-91), with DUPLICATE_SPREAD_MIN_DAYS one
\* of gaps
InitSched(gaps) ==
    /\ all_content = << >>
    /\ sched_pc = [at |-> "idle", day_offset |-> 0, page |-> 1, start_date |-> 0]
    /\ min_day_gap \in gaps

NextSched ==
    \/ GenerateWeeklySchedule
    \/ ScheduleTemplatesForDay
    \/ ScheduleNotebooksForDay
    \/ HandleDuplicateSpreading
    \/ ScheduleDuplicateContent


-----------------------------------------------------------------------------
(* Duplicate Coordinator: adjust_hashtags_for_page (duplicate_content_handler.py) *)

\* for tag in tags: if tag not in hashtags: hashtags.insert(0, tag)
insert_missing(hashtags, tags) ==
    LET after[i \in 0..Len(tags)] ==
            IF i = 0 THEN hashtags
            ELSE IF tags[i] \in Range(after[i - 1]) THEN after[i - 1]
            ELSE << tags[i] >> \o after[i - 1]
    IN  after[Len(tags)]

\* the method working on base_hashtags itself, without the copy
adjust_hashtags_for_page_in_place(base_hashtags, page_name) ==
    LET sagemath_tags == << "SageMath", "SymbolicMath", "PureMath", "MathematicalComputing" >>
        remove_tags == {"Engineering", "Physics", "DataScience"}
        cocalc_tags == << "CoCalc", "ComputationalScience", "ReproducibleResearch" >>
        SagePage == Contains(page_name, << "S", "a", "g", "e", "M", "a", "t", "h" >>)
        inserted == insert_missing(base_hashtags, IF SagePage THEN sagemath_tags ELSE cocalc_tags)
        hashtags == IF SagePage THEN SelectSeq(inserted, LAMBDA tag : tag \notin remove_tags)
                    ELSE inserted
    IN  [ret |-> SubSeq(hashtags, 1, Min(10, Len(hashtags))), base_hashtags |-> inserted]

\* adjust_hashtags_for_page(base_hashtags, page_name): the list returned and the
\* caller's list after the call
adjust_hashtags_for_page(base_hashtags, page_name) ==
    LET sagemath_tags == << "SageMath", "SymbolicMath", "PureMath", "MathematicalComputing" >>
        remove_tags == {"Engineering", "Physics", "DataScience"}
        cocalc_tags == << "CoCalc", "ComputationalScience", "ReproducibleResearch" >>
        SagePage == Contains(page_name, << "S", "a", "g", "e", "M", "a", "t", "h" >>)
        copy == base_hashtags
        inserted == insert_missing(copy, IF SagePage THEN sagemath_tags ELSE cocalc_tags)
        hashtags == IF SagePage THEN SelectSeq(inserted, LAMBDA tag : tag \notin remove_tags)
                    ELSE inserted
    IN  [ret |-> SubSeq(hashtags, 1, Min(10, Len(hashtags))), base_hashtags |-> base_hashtags]

\* the hashtag lists of the callers: the runs of tags of one long list, which
\* holds destination tags, off-topic tags and a tag twice
BaseHashtags ==
    LET pool == << "Physics", "SageMath", "Engineering", "CoCalc", "DataScience", "LaTeX",
                   "SageTeX", "Mathematics", "Python", "Math", "Algebra", "Calculus",
                   "LaTeX" >>
    IN  {SubSeq(pool, i, j) : i \in 1..(Len(pool) + 1), j \in 0..Len(pool)}

\* a call of adjust_hashtags_for_page; the page name is one of PAGES or a name
\* in another case
AdjustHashtagsForPage ==
    /\ \E base_hashtags \in BaseHashtags,
          page_name \in {<< "C", "o", "C", "a", "l", "c" >>,
                         << "S", "a", "g", "e", "M", "a", "t", "h" >>,
                         << "s", "a", "g", "e", "m", "a", "t", "h" >>} :
        LET r == adjust_hashtags_for_page(base_hashtags, page_name)
        IN  last' = [op |-> "adjust_hashtags_for_page", base_hashtags |-> base_hashtags,
                     page_name |-> page_name, ret |-> r.ret, after |-> r.base_hashtags]
    /\ UNCHANGED << queue_vars, rate_vars, sched_vars, post_vars, peer_queue >>

-----------------------------------------------------------------------------
(* Dispatcher: SmartScheduler (smart_scheduler.py) *)

\* QueuedPost: the template is held by its template_name, the only field of it
\* the Dispatcher reads
PostFields ==
    {"template", "platform", "content", "hashtags", "link", "image_path", "alt_text",
     "scheduled_time", "priority", "created_at"}

PostKind(f) ==
    CASE f \in {"image_path", "alt_text"} -> "Optional[str]"
      [] f = "hashtags" -> "List[str]"
      [] f = "priority" -> "int"
      [] OTHER -> "str"

\* QueuedPost(...) made at time t: __post_init__ fills created_at
QueuedPost(template, platform, image_path, scheduled_time, priority, t) ==
    [template |-> template,
     platform |-> platform,
     content |-> "text",
     hashtags |-> << "Math" >>,
     link |-> "https://cocalc.com",
     image_path |-> image_path,
     alt_text |-> None,
     scheduled_time |-> scheduled_time,
     priority |-> priority,
     created_at |-> isoformat(t)]

\* SmartScheduler._save_queue: QueuedPost.to_dict of every post, json.dump; the
\* exception of a failed write is logged and swallowed
_save_post_queue(q, file, outcome) ==
    write_file(file,
               [i \in DOMAIN q |-> [f \in PostFields |-> json_dumps(PostKind(f), q[i][f])]],
               outcome)

\* SmartScheduler._load_queue
_load_post_queue(file) ==
    IF file.state = "json"
    THEN [i \in DOMAIN file.data |->
            [f \in PostFields |-> json_loads(PostKind(f), file.data[i][f])]]
    ELSE << >>

\* get_posts_due without the lower end of the window
get_posts_due_overdue(q, t, within_minutes) ==
    SelectSeq(q, LAMBDA post :
                    /\ Parsable(post.scheduled_time)
                    /\ fromisoformat(post.scheduled_time) <= t + timedelta(0, 0, within_minutes))

\* get_posts_due(within_minutes) at time t: both ends inclusive, queue order; a
\* scheduled_time that does not parse is skipped
get_posts_due(q, t, within_minutes) ==
    SelectSeq(q, LAMBDA post :
                    /\ Parsable(post.scheduled_time)
                    /\ t <= fromisoformat(post.scheduled_time)
                    /\ fromisoformat(post.scheduled_time) <= t + timedelta(0, 0, within_minutes))

\* _reschedule_post that moves the post by one minute
_reschedule_post_minute(q, post) ==
    [i \in DOMAIN q |->
        IF q[i] = post /\ Parsable(post.scheduled_time)
        THEN [q[i] EXCEPT !.scheduled_time =
                             isoformat(fromisoformat(post.scheduled_time) + timedelta(0, 0, 1))]
        ELSE q[i]]

\* _reschedule_post(post): the post object, which is the one in the queue, gets
\* scheduled_time + 1 hour; the queue is saved and is not sorted again.  A
\* scheduled_time that does not parse raises inside the try: nothing changes.
_reschedule_post(q, post) ==
    [i \in DOMAIN q |->
        IF q[i] = post /\ Parsable(post.scheduled_time)
        THEN [q[i] EXCEPT !.scheduled_time =
                             isoformat(fromisoformat(post.scheduled_time) + timedelta(0, 1, 0))]
        ELSE q[i]]

\* what publish_post gets from the publisher before any request is sent:
\* "missing_media" and "unknown_platform" are its own early returns of False,
\* "missing_credentials" and "not_implemented" are PublishResult(success=False)
\* of the publisher, "request" is a Graph API request going out
publisher_call(post, credentials) ==
    CASE post.platform = "instagram" /\ post.image_path = None -> "missing_media"
      [] post.platform \notin Platforms -> "unknown_platform"
      [] ~credentials -> "missing_credentials"
      [] post.platform = "instagram" -> "not_implemented"
      [] OTHER -> "request"

\* the end of a request: PublishResult(success=True), PublishResult(success=False)
\* (API error, or an exception the publisher caught), or an exception that
\* leaves the publisher
Responses == {"success", "failure", "raised"}

\* publish_post that lets the exception of the publisher through
publish_post_uncaught(q, post, result) ==
    CASE result \in {"missing_media", "unknown_platform"} ->
            [queue |-> q, saved |-> FALSE, ret |-> FALSE, raised |-> FALSE]
      [] result = "success" ->
            [queue |-> SelectSeq(q, LAMBDA p : p # post), saved |-> TRUE, ret |-> TRUE,
             raised |-> FALSE]
      [] result = "raised" ->
            [queue |-> q, saved |-> FALSE, ret |-> FALSE, raised |-> TRUE]
      [] OTHER ->
            [queue |-> _reschedule_post(q, post), saved |-> Parsable(post.scheduled_time),
             ret |-> FALSE, raised |-> FALSE]

\* publish_post that leaves a published post in the queue
publish_post_keep(q, post, result) ==
    CASE result \in {"missing_media", "unknown_platform"} ->
            [queue |-> q, saved |-> FALSE, ret |-> FALSE, raised |-> FALSE]
      [] result = "success" ->
            [queue |-> q, saved |-> TRUE, ret |-> TRUE, raised |-> FALSE]
      [] OTHER ->
            [queue |-> _reschedule_post(q, post), saved |-> Parsable(post.scheduled_time),
             ret |-> FALSE, raised |-> FALSE]

\* publish_post that removes every post of the platform of the published one
publish_post_platform(q, post, result) ==
    CASE result \in {"missing_media", "unknown_platform"} ->
            [queue |-> q, saved |-> FALSE, ret |-> FALSE, raised |-> FALSE]
      [] result = "success" ->
            [queue |-> SelectSeq(q, LAMBDA p : p.platform # post.platform), saved |-> TRUE,
             ret |-> TRUE, raised |-> FALSE]
      [] OTHER ->
            [queue |-> _reschedule_post(q, post), saved |-> Parsable(post.scheduled_time),
             ret |-> FALSE, raised |-> FALSE]

\* publish_post(post) from the result on: the new queue, whether _save_queue
\* ran, the value returned, and whether an exception leaves publish_post
publish_post(q, post, result) ==
    CASE result \in {"missing_media", "unknown_platform"} ->
            [queue |-> q, saved |-> FALSE, ret |-> FALSE, raised |-> FALSE]
      [] result = "success" ->
            [queue |-> SelectSeq(q, LAMBDA p : p # post), saved |-> TRUE, ret |-> TRUE,
             raised |-> FALSE]
      [] OTHER ->
            [queue |-> _reschedule_post(q, post), saved |-> Parsable(post.scheduled_time),
             ret |-> FALSE, raised |-> FALSE]

\* add_to_queue(posts): extend, sort by (scheduled_time, -priority), save
add_to_queue(q, posts) == StableSort(q \o posts)

\* inputs of the Dispatcher
PostTemplates == << "optics", "fourier", "primes" >>
PostTimes == {StartNow + 1, StartNow + 61}
\* a threads post goes the way of a facebook post
PostMedia == { << "facebook", None >>,
               << "instagram", None >>, << "instagram", Some("figure.png") >> }

\* the posts generate_weekly_schedule may make of one template at time t
NewPosts(template, t) ==
    { QueuedPost(template, media[1], media[2], isoformat(time), priority, t) :
        media \in PostMedia, time \in PostTimes, priority \in Priorities }

\* template names the Dispatcher has had in its queue
UsedTemplates == {post_queue[i].template : i \in DOMAIN post_queue} \cup published

\* the first poll after t that finds a post due: the polls before it find
\* nothing and change nothing
NextPoll(q, t) ==
    LET finds == {d \in 1..MaxSleep : get_posts_due(q, t + d, 1) # << >>}
    IN  IF finds = {} THEN None ELSE Some(CHOOSE d \in finds : \A e \in finds : d <= e)

\* the record of a Dispatcher operation
Dispatched(op, post, result, ret) ==
    [op |-> op, post |-> post, result |-> result, ret |-> ret, before |-> post_queue,
     in_flight |-> loop.post]

Sleeping == [pc |-> "sleeping", polled |-> << >>, due |-> << >>, dispatched |-> << >>,
             post |-> None]

\* the initial generation, before the first poll: add_to_queue(initial_posts);
\* the weekly regeneration does not fall into the hours the model covers
AddToQueue(Outcomes) ==
    /\ loop.pc = "sleeping"
    /\ now = StartNow
    /\ Cardinality(UsedTemplates) < MaxPosts
    /\ \E post \in NewPosts(PostTemplates[Cardinality(UsedTemplates) + 1], now),
          outcome \in Outcomes :
        /\ Charge(outcome)
        /\ post_queue' = add_to_queue(post_queue, << post >>)
        /\ post_queue_file' = _save_post_queue(post_queue', post_queue_file, outcome)
        /\ last' = Dispatched("add_to_queue", Some(post), "", TRUE)
    /\ UNCHANGED << queue, posting_history, queue_file, history_file, now, uuid_next,
                    frame, loop, published, recent_templates, rate_vars, sched_vars,
                    peer_queue >>

\* check_and_publish starts: due_posts = get_posts_due(within_minutes=1)
CheckAndPublish ==
    /\ loop.pc = "sleeping"
    /\ NextPoll(post_queue, now) # None
    /\ now + TheValue(NextPoll(post_queue, now)) <= StartNow + MaxPollTime
    /\ now' = now + TheValue(NextPoll(post_queue, now))
    /\ LET due_posts == get_posts_due(post_queue, now', 1) IN
        /\ loop' = [pc |-> "polling", polled |-> due_posts, due |-> due_posts,
                    dispatched |-> << >>, post |-> None]
        /\ last' = Dispatched("check_and_publish", None, "", TRUE)
    /\ UNCHANGED << queue, posting_history, queue_file, history_file, uuid_next, frame,
                    faults, post_queue, post_queue_file, published, recent_templates,
                    rate_vars, sched_vars, peer_queue >>

\* add_to_queue of facebook posts only
AddFacebookPost ==
    /\ loop.pc = "sleeping"
    /\ now = StartNow
    /\ Cardinality(UsedTemplates) < MaxPosts
    /\ \E post \in NewPosts(PostTemplates[Cardinality(UsedTemplates) + 1], now) :
        /\ post.platform = "facebook"
        /\ post_queue' = add_to_queue(post_queue, << post >>)
        /\ post_queue_file' = _save_post_queue(post_queue', post_queue_file, "ok")
        /\ last' = Dispatched("add_to_queue", Some(post), "", TRUE)
    /\ UNCHANGED << queue, posting_history, queue_file, history_file, now, uuid_next,
                    frame, faults, loop, published, recent_templates, rate_vars,
                    sched_vars, peer_queue >>

MaxLate == 2          \* minutes a poll runs after the minute a post was due

\* a poll that runs late: run_pending calls check_and_publish once the job
\* before it has returned and the sleep of 30 seconds is over, so a publish that
\* blocks (a slow request, the 60 seconds sleep of the rate limiter) or a
\* suspended process lets the minute of a post pass without a poll
CheckAndPublishLate ==
    /\ loop.pc = "sleeping"
    /\ NextPoll(post_queue, now) # None
    /\ \E late \in 1..MaxLate :
        LET t == now + TheValue(NextPoll(post_queue, now)) + late
            due_posts == get_posts_due(post_queue, t, 1)
        IN  /\ t <= StartNow + MaxPollTime
            /\ now' = t
            /\ loop' = [pc |-> IF due_posts = << >> THEN "sleeping" ELSE "polling",
                        polled |-> due_posts, due |-> due_posts, dispatched |-> << >>,
                        post |-> None]
            /\ last' = Dispatched("check_and_publish", None, "", TRUE)
    /\ UNCHANGED << queue, posting_history, queue_file, history_file, uuid_next, frame,
                    faults, post_queue, post_queue_file, published, recent_templates,
                    rate_vars, sched_vars, peer_queue >>

\* the rest of publish_post(post) once the publisher's result is known, and the
\* step of the for loop of check_and_publish
Returned(post, result, outcome, dispatched) ==
    LET r == publish_post(post_queue, post, result)
        rest == Tail(loop.due)
    IN  /\ Charge(IF r.saved THEN outcome ELSE "ok")
        /\ post_queue' = r.queue
        /\ post_queue_file' = IF r.saved
                              THEN _save_post_queue(r.queue, post_queue_file, outcome)
                              ELSE post_queue_file
        /\ published' = IF result = "success" THEN published \cup {post.template}
                        ELSE published
        /\ loop' = IF r.raised
                   THEN [loop EXCEPT !.pc = "crashed", !.post = None,
                                     !.dispatched = dispatched]
                   ELSE [loop EXCEPT !.pc = IF rest = << >> THEN "sleeping" ELSE "polling",
                                     !.due = rest, !.post = None,
                                     !.dispatched = dispatched]
        /\ last' = Dispatched("publish_post", Some(post), result, r.ret)

\* publish_post(post) of the next due post, up to the request to the Graph API
PublishPostCall(Outcomes) ==
    /\ loop.pc = "polling"
    /\ LET post == Head(loop.due) IN
       \E credentials \in BOOLEAN, outcome \in Outcomes :
          LET result == publisher_call(post, credentials) IN
          IF result = "request"
          THEN /\ loop' = [loop EXCEPT !.pc = "in_flight", !.post = Some(post),
                                       !.dispatched = Append(@, post)]
               /\ last' = Dispatched("publish_post:request", Some(post), result, FALSE)
               /\ outcome = "ok"
               /\ UNCHANGED << post_queue, post_queue_file, published, faults >>
          ELSE Returned(post, result, outcome, Append(loop.dispatched, post))
    /\ UNCHANGED << queue, posting_history, queue_file, history_file, now, uuid_next,
                    frame, recent_templates, rate_vars, sched_vars, peer_queue >>

\* publish_post(post) from the end of the request on
PublishPostReturn(Outcomes) ==
    /\ loop.pc = "in_flight"
    /\ \E response \in Responses, outcome \in Outcomes :
          Returned(TheValue(loop.post), response, outcome, loop.dispatched)
    /\ UNCHANGED << queue, posting_history, queue_file, history_file, now, uuid_next,
                    frame, recent_templates, rate_vars, sched_vars, peer_queue >>

\* Ctrl+C: KeyboardInterrupt is no Exception, so neither the publisher nor
\* publish_post catches it; it ends check_and_publish and run_pending and is
\* caught by run_scheduler_loop, which returns.  A request that was going out
\* may or may not have been accepted by the platform.
KeyboardInterrupt ==
    /\ loop.pc \in {"sleeping", "polling", "in_flight"}
    /\ \E accepted \in BOOLEAN :
        /\ accepted => loop.pc = "in_flight"
        /\ published' = IF accepted THEN published \cup {TheValue(loop.post).template}
                        ELSE published
    /\ loop' = [loop EXCEPT !.pc = "stopped", !.post = None]
    /\ last' = Dispatched("KeyboardInterrupt", loop.post, "", FALSE)
    /\ UNCHANGED << queue, posting_history, queue_file, history_file, now, uuid_next,
                    frame, faults, post_queue, post_queue_file, recent_templates,
                    rate_vars, sched_vars, peer_queue >>

\* SmartScheduler.__init__: the queue file does not exist yet
InitPosts ==
    /\ post_queue_file = NoFile
    /\ post_queue = _load_post_queue(post_queue_file)
    /\ loop = Sleeping
    /\ published = {}
    /\ recent_templates = [platform \in Platforms |-> << >>]

\* run_scheduler_loop
NextDispatch ==
    \/ AddToQueue({"ok"})
    \/ CheckAndPublish
    \/ PublishPostCall({"ok", "partial"})
    \/ PublishPostReturn({"ok", "partial"})
    \/ KeyboardInterrupt


-----------------------------------------------------------------------------
(* Calendar Scheduler: SmartScheduler (smart_scheduler.py) *)

RecentWindow == 2     \* length of the recency window (30 in the code)

\* SmartScheduler.DAY_THEMES, Monday first
SmartScheduler_DAY_THEMES ==
    << << << "p", "h", "y", "s", "i", "c", "s" >>, << "q", "u", "a", "n", "t", "u", "m", "-", "p", "h", "y", "s", "i", "c", "s" >>, << "a", "s", "t", "r", "o", "p", "h", "y", "s", "i", "c", "s" >> >>,
       << << "m", "a", "t", "h", "e", "m", "a", "t", "i", "c", "s" >>, << "n", "u", "m", "e", "r", "i", "c", "a", "l", "-", "a", "n", "a", "l", "y", "s", "i", "s" >>, << "a", "l", "g", "e", "b", "r", "a" >> >>,
       << << "m", "a", "c", "h", "i", "n", "e", "-", "l", "e", "a", "r", "n", "i", "n", "g" >>, << "c", "o", "m", "p", "u", "t", "e", "r", "-", "s", "c", "i", "e", "n", "c", "e" >>, << "a", "i" >> >>,
       << << "e", "n", "g", "i", "n", "e", "e", "r", "i", "n", "g" >>, << "r", "o", "b", "o", "t", "i", "c", "s" >>, << "c", "o", "n", "t", "r", "o", "l", "-", "t", "h", "e", "o", "r", "y" >> >>,
       << << "b", "i", "o", "l", "o", "g", "y" >>, << "c", "h", "e", "m", "i", "s", "t", "r", "y" >>, << "b", "i", "o", "i", "n", "f", "o", "r", "m", "a", "t", "i", "c", "s" >> >>,
       << << "m", "i", "x", "e", "d" >> >>,
       << << "m", "i", "x", "e", "d" >> >> >>

\* recent[-RecentWindow:]
recent_window(recent) ==
    SubSeq(recent, IF Len(recent) > RecentWindow THEN Len(recent) - RecentWindow + 1 ELSE 1,
           Len(recent))

\* the candidates of _select_template_for_day before the recency filter
theme_candidates(themes) ==
    LET all_templates == Range(Templates)
        Mixed == \E k \in DOMAIN themes : themes[k] = << "m", "i", "x", "e", "d" >>
        matching == {template \in all_templates :
                        \E k \in DOMAIN themes : Contains(template.category, themes[k])}
    IN  IF Mixed \/ matching = {} THEN all_templates ELSE matching

\* the selection without the recency filter
_select_template_for_day_unfiltered(recent, themes) ==
    [candidates |-> theme_candidates(themes), recent |-> recent]

\* _select_template_for_day(themes, platform) with recent the list
\* recent_templates[platform]: the templates random.choice can return and the
\* list the call leaves
_select_template_for_day(recent, themes) ==
    LET unused == {template \in theme_candidates(themes) :
                      template.template_name \notin Range(recent_window(recent))}
    IN  IF unused # {} THEN [candidates |-> unused, recent |-> recent]
        ELSE [candidates |-> Range(Templates), recent |-> << >>]

\* one slot of generate_weekly_schedule, with facebook and instagram the
\* configured platforms: the selection, the post of _generate_post_for_platform
\* (None when the generation raised) and the record of the name in
\* recent_templates
SelectTemplateForDay ==
    /\ \E platform \in {"facebook", "instagram"}, d \in DOMAIN SmartScheduler_DAY_THEMES,
          generated \in BOOLEAN :
        LET themes == SmartScheduler_DAY_THEMES[d]
            r == _select_template_for_day(recent_templates[platform], themes)
        IN  \E template \in r.candidates :
               /\ recent_templates' =
                      [recent_templates EXCEPT ![platform] =
                          IF generated /\ template.template_name \notin Range(r.recent)
                          THEN Append(r.recent, template.template_name)
                          ELSE r.recent]
               /\ last' = [op |-> "_select_template_for_day", platform |-> platform,
                           themes |-> themes, before |-> recent_templates[platform],
                           recent |-> r.recent, selected |-> template.template_name,
                           generated |-> generated]
    /\ UNCHANGED << queue_vars, rate_vars, sched_vars, post_queue, post_queue_file, loop,
                    published, peer_queue >>

\* SmartScheduler._calculate_priority(template, platform); a list is falsy when
\* empty
_calculate_priority(template, platform) ==
    Min(5 + (IF template.complexity_score >= 4 THEN 2
             ELSE IF template.complexity_score >= 3 THEN 1 ELSE 0)
          + (IF template.plot_files # << >> THEN 1 ELSE 0)
          + (IF template.has_pythontex \/ template.has_sagetex THEN 1 ELSE 0)
          + (IF platform = "instagram" /\ template.plot_files # << >> THEN 1 ELSE 0),
        10)

MaxFailedPosts == 1   \* posts of one pass whose generation raises

\* SmartScheduler.OPTIMAL_TIMES, and its keys in the order of the dict
SmartScheduler_OPTIMAL_TIMES ==
    [facebook |-> << << 9, 0 >>, << 13, 0 >>, << 19, 0 >> >>,
     threads |-> << << 11, 0 >>, << 16, 0 >> >>,
     instagram |-> << << 10, 0 >>, << 18, 0 >> >>]

OptimalTimesKeys == << "facebook", "threads", "instagram" >>

\* the template lists scanner.templates may hold once load_index or
\* scan_all_templates has run: no template, or one
TemplateIndexes ==
    { << >>, << Templates[1] @@ [plot_files |-> << "optics.pdf" >>] >> }

\* _select_template_for_day without the guard of its last line: random.choice
\* raises IndexError on an empty list
_select_template_for_day_of_unguarded(templates, recent, themes) ==
    LET all_templates == Range(templates)
        Mixed == \E k \in DOMAIN themes : themes[k] = << "m", "i", "x", "e", "d" >>
        matching == {template \in all_templates :
                        \E k \in DOMAIN themes : Contains(template.category, themes[k])}
        candidates == IF Mixed \/ matching = {} THEN all_templates ELSE matching
        unused == {template \in candidates :
                      template.template_name \notin Range(recent_window(recent))}
    IN  IF unused # {}
        THEN [raised |-> FALSE, ret |-> {Some(template) : template \in unused},
              recent |-> recent]
        ELSE [raised |-> all_templates = {},
              ret |-> IF all_templates = {} THEN {None}
                      ELSE {Some(template) : template \in all_templates},
              recent |-> << >>]

\* _select_template_for_day(themes, platform) over the index `templates`, with
\* recent the list recent_templates[platform]: the values the call can return
\* (None when no candidate is left), whether it raised, and the list it leaves
_select_template_for_day_of(templates, recent, themes) ==
    LET all_templates == Range(templates)
        Mixed == \E k \in DOMAIN themes : themes[k] = << "m", "i", "x", "e", "d" >>
        matching == {template \in all_templates :
                        \E k \in DOMAIN themes : Contains(template.category, themes[k])}
        candidates == IF Mixed \/ matching = {} THEN all_templates ELSE matching
        unused == {template \in candidates :
                      template.template_name \notin Range(recent_window(recent))}
    IN  IF unused # {}
        THEN [raised |-> FALSE, ret |-> {Some(template) : template \in unused},
              recent |-> recent]
        ELSE [raised |-> FALSE,
              ret |-> IF all_templates = {} THEN {None}
                      ELSE {Some(template) : template \in all_templates},
              recent |-> << >>]

\* SmartScheduler.generate_weekly_schedule, up to its loops (lines 118-129): the
\* index the scanner holds after load_index or scan_all_templates
LoadTemplateIndex ==
    /\ sched_pc.at = "idle"
    /\ \E templates \in TemplateIndexes :
        sched_pc' = [at |-> "slots", day_offset |-> 0, platform |-> 1, post_time |-> 1,
                     start_date |-> now, templates |-> templates,
                     scheduled_posts |-> << >>, failed |-> 0]
    /\ last' = [op |-> "load_index", selected |-> None, generated |-> FALSE]
    /\ UNCHANGED << all_content, min_day_gap, queue_vars, rate_vars, post_vars, peer_queue >>

\* one iteration of the innermost loop of generate_weekly_schedule (lines
\* 139-161) and the step to the next time, platform or day; an exception of the
\* selection leaves generate_weekly_schedule
ScheduleSlot ==
    /\ sched_pc.at = "slots"
    /\ LET current_date == sched_pc.start_date + timedelta(sched_pc.day_offset, 0, 0)
           themes == SmartScheduler_DAY_THEMES[weekday(current_date) + 1]
           platform == OptimalTimesKeys[sched_pc.platform]
           times == SmartScheduler_OPTIMAL_TIMES[platform]
           post_time == times[sched_pc.post_time]
           r == _select_template_for_day_of(sched_pc.templates, recent_templates[platform],
                                            themes)
           scheduled_dt == replace_time(current_date, post_time[1], post_time[2])
           next_slot ==
               IF sched_pc.post_time < Len(times)
               THEN [sched_pc EXCEPT !.post_time = @ + 1]
               ELSE IF sched_pc.platform < Len(OptimalTimesKeys)
               THEN [sched_pc EXCEPT !.post_time = 1, !.platform = @ + 1]
               ELSE IF sched_pc.day_offset + 1 < SchedDays
               THEN [sched_pc EXCEPT !.post_time = 1, !.platform = 1, !.day_offset = @ + 1]
               ELSE [sched_pc EXCEPT !.at = "returned"]
       IN  \E template \in r.ret, generated \in BOOLEAN :
               LET post == IF template # None /\ generated
                           THEN Some(QueuedPost(TheValue(template).template_name, platform,
                                                None, isoformat(scheduled_dt),
                                                _calculate_priority(TheValue(template),
                                                                    platform),
                                                now))
                           ELSE None
                   name == TheValue(template).template_name
               IN  /\ ~generated => (template # None /\ sched_pc.failed < MaxFailedPosts)
                   /\ recent_templates' =
                          [recent_templates EXCEPT ![platform] =
                              IF ~r.raised /\ post # None /\ name \notin Range(r.recent)
                              THEN Append(r.recent, name)
                              ELSE r.recent]
                   /\ sched_pc' =
                          IF r.raised THEN [sched_pc EXCEPT !.at = "raised"]
                          ELSE [next_slot EXCEPT
                                   !.scheduled_posts =
                                       IF post # None THEN Append(@, TheValue(post)) ELSE @,
                                   !.failed = IF generated THEN @ ELSE @ + 1]
                   /\ last' = [op |-> "generate_weekly_schedule", selected |-> template,
                               generated |-> generated]
    /\ UNCHANGED << all_content, min_day_gap, queue_vars, rate_vars, post_queue,
                    post_queue_file, loop, published, peer_queue >>

\* the templates the scanner can describe, as far as the priority reads them:
\* complexity_score is 1 to 5 (template_scanner.py:255)
PriorityTemplates ==
    { [template_name |-> << "o", "p", "t", "i", "c", "s" >>,
       category |-> << "p", "h", "y", "s", "i", "c", "s" >>, description |-> << >>,
       has_sagetex |-> sagetex, has_pythontex |-> pythontex, complexity_score |-> score,
       plot_files |-> plot_files] :
        sagetex \in BOOLEAN, pythontex \in BOOLEAN, score \in 1..5,
        plot_files \in { << >>, << "optics_plot.pdf" >> } }

\* a call of SmartScheduler._calculate_priority or of
\* EnhancedScheduler._calculate_template_priority
CalculatePriority ==
    /\ \E template \in PriorityTemplates :
        \/ \E platform \in Platforms :
               last' = [op |-> "_calculate_priority", template |-> template,
                        platform |-> platform,
                        ret |-> _calculate_priority(template, platform)]
        \/ last' = [op |-> "_calculate_template_priority", template |-> template,
                    platform |-> "facebook",
                    ret |-> _calculate_template_priority(template)]
    /\ UNCHANGED << queue_vars, rate_vars, sched_vars, post_vars, peer_queue >>

\* the store fed by the Duplicate Coordinator, with transient failures
MaxSpacingTime == 2880   \* no content is rescheduled from this instant on (day 2, 00:00)

\* add_batch of the two copies of a template as schedule_duplicate_content
\* spaces them: the first at an optimal time of the day after the start, the
\* second min_day_gap days later
AddSpacedBatch ==
    /\ frame = None
    /\ uuid_next + 1 <= MaxContents
    /\ \E contents \in NewDuplicates(uuid_next, StartNow), k \in DOMAIN OPTIMAL_TIMES :
        LET base_time == timedelta(day(StartNow) + 1, OPTIMAL_TIMES[k][1], OPTIMAL_TIMES[k][2])
            first == [contents[1] EXCEPT !.scheduled_time = isoformat(base_time)]
            second == [contents[2] EXCEPT !.scheduled_time =
                           isoformat(base_time + timedelta(min_day_gap, 0, 0))]
        IN  add_batch(<< first, second >>, "ok")
    /\ uuid_next' = uuid_next + 2
    /\ UNCHANGED << posting_history, history_file, now, frame, faults, rate_vars,
                    sched_vars, post_vars, peer_queue >>

\* a dispatch of a queued content fails transiently and the content is moved as
\* _reschedule_post moves a post: reschedule_content(content_id, old_time + 1 hour)
RescheduleHour ==
    /\ frame = None
    /\ \E i \in DOMAIN queue :
        LET old_time == fromisoformat(queue[i].scheduled_time)
            new_time == old_time + timedelta(0, 1, 0)
        IN  /\ old_time < MaxSpacingTime
            /\ queue' = reschedule_content(queue, queue[i].content_id, new_time)
            /\ queue_file' = _save_queue(queue', queue_file, "ok")
            /\ last' = Result("reschedule_content", queue[i].content_id, TRUE, << >>, new_time)
    /\ UNCHANGED << posting_history, history_file, now, uuid_next, frame, faults, rate_vars,
                    sched_vars, post_vars, peer_queue >>

\* a second UnifiedQueueManager is constructed on the same files
InitPeer == peer_queue = _load_queue(NoFile, StartNow)

-----------------------------------------------------------------------------
(* Two UnifiedQueueManager objects on the same queue file: the store takes no
   lock and each object writes the whole file from its own list *)

\* add_content(content) of the second manager
PeerAddContent ==
    /\ uuid_next <= MaxContents
    /\ \E content \in NewContents(uuid_next, StartNow) :
        /\ peer_queue' = _sort_queue(Append(peer_queue, content))
        /\ queue_file' = _save_queue(peer_queue', queue_file, "ok")
        /\ last' = Result("peer:add_content", content.content_id, TRUE, << >>, 0)
    /\ uuid_next' = uuid_next + 1
    /\ UNCHANGED << queue, posting_history, history_file, now, frame, faults, rate_vars,
                    sched_vars, post_vars >>

\* the second manager is constructed again: it loads the queue file
PeerRestart ==
    /\ peer_queue' = _load_queue(queue_file, now)
    /\ peer_queue' # peer_queue
    /\ last' = Result("peer:restart", 0, TRUE, << >>, 0)
    /\ UNCHANGED << queue, posting_history, queue_file, history_file, now, uuid_next,
                    frame, faults, rate_vars, sched_vars, post_vars >>

\* two managers that add content, every write succeeding
NextPeers ==
    \/ AddContent({"ok"})
    \/ AddBatch({"ok"})
    \/ Restart
    \/ PeerAddContent
    \/ PeerRestart

\* UnifiedQueueManager.__init__ on a queue file that an earlier process left
\* truncated by a failed write
InitUnloadable ==
    /\ queue_file = write_file(NoFile, << >>, "partial")
    /\ queue = _load_queue(queue_file, StartNow)
    /\ posting_history = << >>
    /\ history_file = NoFile
    /\ now = StartNow
    /\ uuid_next = 1
    /\ frame = None
    /\ faults = 0
    /\ last = [op |-> "init", id |-> 0, ret |-> TRUE, items |-> << >>, w |-> 0]

\* the default configuration
Init == InitQueue /\ InitRate /\ InitSched({DefaultMinDayGap}) /\ InitPosts /\ InitPeer

\* any configured gap
InitAnyGap == InitQueue /\ InitRate /\ InitSched(0..MaxDayGap) /\ InitPosts /\ InitPeer

\* the operations of the Queue Store at one instant, every write succeeding
Next ==
    \/ AddContent({"ok"})
    \/ AddBatch({"ok"})
    \/ GetDueContent
    \/ RemoveContent({"ok"})
    \/ MarkPostedRemove({"ok"})
    \/ MarkPostedRecord({"ok"})
    \/ RescheduleContent({"ok"})

Spec == Init /\ [][Next]_vars

\* the same with failing writes, crashes and restarts
NextPersist ==
    \/ AddContent(WriteOutcomes)
    \/ AddBatch(WriteOutcomes)
    \/ RemoveContent(WriteOutcomes)
    \/ MarkPostedRemove(WriteOutcomes)
    \/ MarkPostedRecord(WriteOutcomes)
    \/ RescheduleContent(WriteOutcomes)
    \/ Restart
    \/ Crash

SpecPersist == Init /\ [][NextPersist]_vars

\* the Dispatcher with failing writes of the queue file and Ctrl+C
SpecDispatch == Init /\ [][NextDispatch]_vars

\* the store with its read-only operations
NextQueries ==
    \/ AddContent({"ok"})
    \/ AddBatch({"ok"})
    \/ AddUnparsable
    \/ RescheduleContent({"ok"})
    \/ GetDueContent
    \/ ValidateNoSameDayDuplicates
    \/ Tick

SpecQueries == Init /\ [][NextQueries]_vars

\* the slots of generate_weekly_schedule of the SmartScheduler
NextCalendar ==
    \/ SelectTemplateForDay

SpecCalendar == Init /\ [][NextCalendar]_vars

\* calls of adjust_hashtags_for_page
SpecHashtags == Init /\ [][AdjustHashtagsForPage]_vars

\* the store with spaced duplicate groups and +1 hour reschedules, for any
\* configured gap
SpecSpacing == InitAnyGap /\ [][AddSpacedBatch \/ RescheduleHour]_vars

\* the Dispatcher of facebook posts with polls that run late, every write
\* succeeding
NextOverdue ==
    \/ AddFacebookPost
    \/ CheckAndPublish
    \/ CheckAndPublishLate
    \/ PublishPostCall({"ok"})
    \/ PublishPostReturn({"ok"})

SpecOverdue == Init /\ [][NextOverdue]_vars

\* adds, removals and mark_posted of one manager with failing writes
NextHistory ==
    \/ AddContent(WriteOutcomes)
    \/ AddBatch(WriteOutcomes)
    \/ RemoveContent(WriteOutcomes)
    \/ MarkPostedRemove(WriteOutcomes)
    \/ MarkPostedRecord(WriteOutcomes)

SpecHistory == Init /\ [][NextHistory]_vars

\* adds and the read-only methods of the store
SpecReads ==
    Init /\ [][AddContent({"ok"}) \/ AddBatch({"ok"}) \/ AddUnparsable \/ GetDueContent
                  \/ ReadContent]_vars

\* one pass of SmartScheduler.generate_weekly_schedule
SpecWeekly == Init /\ [][LoadTemplateIndex \/ ScheduleSlot]_vars

\* a manager constructed on an unreadable queue file, then adds with failing
\* writes and restarts
InitReload ==
    InitUnloadable /\ InitRate /\ InitSched({DefaultMinDayGap}) /\ InitPosts /\ InitPeer

SpecReload == InitReload /\ [][AddContent(WriteOutcomes) \/ AddBatch(WriteOutcomes) \/ Restart]_vars

\* calls of the two priority functions
SpecPriority == Init /\ [][CalculatePriority]_vars

\* two managers on one queue file
SpecPeers == Init /\ [][NextPeers]_vars

\* the publisher alone
SpecRate == Init /\ [][NextRate]_vars

\* the scheduling pass: router, Duplicate Coordinator and generate_weekly_schedule
SpecSched == InitAnyGap /\ [][NextSched]_vars

-----------------------------------------------------------------------------
(* Claims about the Queue Store *)

\* C1: after any sequence of add_content / add_batch / reschedule_content /
\* remove_content (and mark_posted) from the empty queue, the queue is in
\* non-decreasing scheduled_time order, as text and as instants, and entries with
\* equal scheduled_time are in non-increasing priority order.
C1_SortInvariant ==
    \A i \in DOMAIN queue : \A j \in DOMAIN queue :
        i < j =>
            /\ StrLeq(queue[i].scheduled_time, queue[j].scheduled_time)
            /\ fromisoformat(queue[i].scheduled_time) <= fromisoformat(queue[j].scheduled_time)
            /\ queue[i].scheduled_time = queue[j].scheduled_time
                  => queue[i].priority >= queue[j].priority

\* a reschedule has moved a later-created item in front of an earlier-created one
C1_Witness ==
    /\ last.op = "reschedule_content"
    /\ last.ret
    /\ Len(queue) = 2
    /\ queue[1].content_id = last.id
    /\ queue[1].content_id > queue[2].content_id
    /\ queue[1].scheduled_time # queue[2].scheduled_time

\* C2: right after get_due_content(w) called at time now, a queued item with a
\* parsable scheduled_time is in the result iff now <= scheduled_time <= now + w,
\* and the result lists its items in queue order.
C2_DueWindow ==
    last.op = "get_due_content" =>
        LET InResult(c) == c \in Range(last.items) IN
        /\ \A i \in DOMAIN queue :
              Parsable(queue[i].scheduled_time) =>
                  (InResult(queue[i]) <=>
                      /\ now <= fromisoformat(queue[i].scheduled_time)
                      /\ fromisoformat(queue[i].scheduled_time) <= now + last.w)
        /\ last.items = SelectSeq(queue, InResult)

\* Scenario E: with w = 5 the item at now + 4 is returned, the one at now + 6 is not
C2_Witness ==
    /\ last.op = "get_due_content"
    /\ last.w = 5
    /\ Len(queue) = 2
    /\ queue[1].scheduled_time = isoformat(now + 4)
    /\ queue[2].scheduled_time = isoformat(now + 6)
    /\ last.items = << queue[1] >>

\* C3: the queue file written by _save_queue, loaded by _load_queue of a new
\* manager, gives the same QueuedContent records, field for field, in the same
\* order.
C3_RoundTrip ==
    /\ _load_queue(queue_file, now) = queue
    /\ _load_queue(_save_queue(queue, queue_file, "ok"), now) = queue

\* a saved queue of a duplicate pair, read at a later time than it was created
C3_Witness ==
    /\ queue_file.state = "json"
    /\ Len(queue_file.data) = 2
    /\ Len(queue) = 2
    /\ queue[1].duplicate_group_id # None
    /\ queue[1].alt_text = None
    /\ now > StartNow

C7_MarkPostedAtomic ==
    (frame = None /\ last.op \in {"mark_posted", "crash"}) =>
        \/ \E i \in DOMAIN _load_queue(queue_file, now) :
              _load_queue(queue_file, now)[i].content_id = last.id
        \/ \E j \in DOMAIN _load_posting_history(history_file) :
              _load_posting_history(history_file)[j].content_id = last.id

-----------------------------------------------------------------------------
(* Claims about the publisher *)

PublishOps == {"publish_to_facebook", "publish_to_threads", "publish_to_instagram"}

\* C4: a call of _check_rate_limit for a platform that has been granted exactly
\* its capacity of tokens since the last refill, made before reset_time, is
\* refused; a call made after reset_time is granted, leaves remaining at the full
\* capacity less the token it took, and reset_time one window after the call.
C4_RateLimiter ==
    (last.op \in PublishOps /\ last.checked) =>
        /\ (last.granted_before = Capacity(last.platform) /\ last.t < last.before.reset_time)
               => ~last.ok
        /\ last.t > last.before.reset_time =>
               /\ last.ok
               /\ last.after.remaining = Capacity(last.platform) - 1
               /\ last.after.reset_time = last.t + RateWindow
        /\ rate_limits[last.platform] = last.after
        /\ \A platform \in Platforms :
               rate_limits[platform].remaining + granted[platform] = Capacity(platform)

\* a facebook call refused inside a window whose tokens are all granted, after a
\* refill of an earlier window
C4_Witness ==
    /\ last.op = "publish_to_facebook"
    /\ last.checked
    /\ last.granted_before = CapFacebook
    /\ last.t < last.before.reset_time
    /\ ~last.ok
    /\ last.before.reset_time > ClockStep + RateWindow

\* C5: a publish request is sent for a platform only when the rate check of that
\* call granted a token, and the requests sent for a platform inside one window
\* never exceed its capacity.
C5_Throttled ==
    /\ (last.op \in PublishOps /\ last.requested) => last.ok
    /\ \A platform \in Platforms : sent[platform] <= Capacity(platform)

-----------------------------------------------------------------------------
(* Claims about the scheduling pass *)

Abs(n) == IF n < 0 THEN 0 - n ELSE n

\* C8: in the list generate_weekly_schedule returns, any two distinct members of
\* one duplicate group are scheduled on days at least min_day_gap apart.
C8_GroupSpacing ==
    sched_pc.at = "returned" =>
        \A i \in DOMAIN all_content : \A j \in DOMAIN all_content :
            (/\ i # j
             /\ all_content[i].duplicate_group_id # None
             /\ all_content[i].duplicate_group_id = all_content[j].duplicate_group_id)
            => Abs(day(fromisoformat(all_content[i].scheduled_time))
                   - day(fromisoformat(all_content[j].scheduled_time))) >= min_day_gap

\* the returned list holds a duplicate pair planned on the second day, its later
\* copy two days on, and a non-duplicate
C8_Witness ==
    /\ sched_pc.at = "returned"
    /\ min_day_gap = 2
    /\ \E i \in DOMAIN all_content : \E j \in DOMAIN all_content :
          /\ i # j
          /\ all_content[i].duplicate_group_id # None
          /\ all_content[i].duplicate_group_id = all_content[j].duplicate_group_id
          /\ day(fromisoformat(all_content[i].scheduled_time)) = day(StartNow) + 1
          /\ day(fromisoformat(all_content[j].scheduled_time)) = day(StartNow) + 3
    /\ \E k \in DOMAIN all_content : ~all_content[k].is_duplicate

\* the priority of the route an entry of a schedule was made from
PriorityOf(routes, entry) ==
    (CHOOSE r \in Range(routes) : r.page_id = entry.page_id).priority

\* C9: schedule_duplicate_content of more than one route returns one entry per
\* route, in descending order of priority, the first at base_time and each later
\* one min_day_gap days after the one before it, with one group id no earlier
\* call returned; for the default route (priority 10) and the math-only route
\* (priority 8), base_time T and min_day_gap 2 the entries are (default, T) and
\* (math-only, T + 2 days).
C9_DuplicateCoordinator ==
    (last.op \in {"schedule_duplicate_content", "_schedule_templates_for_day",
                  "_schedule_notebooks_for_day"}) =>
        \A k \in DOMAIN last.calls :
            LET call == last.calls[k]
                entries == call.schedule.schedules
            IN  Len(call.routes) > 1 =>
                /\ Len(entries) = Len(call.routes)
                /\ {entries[i].page_id : i \in DOMAIN entries}
                       = {call.routes[i].page_id : i \in DOMAIN call.routes}
                /\ \A i \in DOMAIN entries : \A j \in DOMAIN entries :
                       i < j => PriorityOf(call.routes, entries[i])
                                    >= PriorityOf(call.routes, entries[j])
                /\ entries[1].scheduled_time = call.base_time
                /\ \A i \in 2..Len(entries) :
                       /\ entries[i].scheduled_time
                              = entries[i - 1].scheduled_time + min_day_gap * 1440
                       /\ day(entries[i].scheduled_time)
                              = day(entries[i - 1].scheduled_time) + min_day_gap
                /\ call.schedule.duplicate_group_id < uuid_next
                /\ \A m \in DOMAIN last.calls :
                       m # k => last.calls[m].schedule.duplicate_group_id
                                    # call.schedule.duplicate_group_id
                /\ \A i \in DOMAIN all_content :
                       all_content[i].duplicate_group_id
                           = Some(call.schedule.duplicate_group_id)
                       => all_content[i] \in Range(call.items)
                /\ (/\ min_day_gap = 2
                    /\ {call.routes[i].page_id : i \in DOMAIN call.routes}
                           = {PAGES.cocalc.id, PAGES.sagemath.id})
                   => /\ entries[1].page_id = PAGES.cocalc.id
                      /\ entries[1].scheduled_time = call.base_time
                      /\ entries[2].page_id = PAGES.sagemath.id
                      /\ entries[2].scheduled_time = call.base_time + 2 * 1440

\* Scenario A with the routes handed over math-only first: the call sorted them
C9_Witness ==
    /\ last.op = "schedule_duplicate_content"
    /\ min_day_gap = 2
    /\ Len(last.calls[1].routes) = 2
    /\ last.calls[1].routes[1].page_id = PAGES.sagemath.id
    /\ last.calls[1].routes[2].page_id = PAGES.cocalc.id
    /\ last.calls[1].schedule.schedules[1].page_id = PAGES.cocalc.id
    /\ last.calls[1].schedule.schedules[2].page_id = PAGES.sagemath.id
    /\ last.calls[1].schedule.schedules[2].scheduled_time
           = last.calls[1].base_time + 2 * 1440

\* C10, as stated: a template of category "mathematics" whose has_sagetex is
\* false is routed to exactly one page, the default one, and the QueuedContent
\* made of it has is_duplicate = false.
C10_ScenarioB ==
    last.op = "_schedule_templates_for_day" =>
        \A k \in DOMAIN last.calls :
            LET call == last.calls[k] IN
            (call.source.category = << "m", "a", "t", "h", "e", "m", "a", "t", "i", "c", "s" >> /\ ~call.source.has_sagetex) =>
                /\ Len(call.routes) = 1
                /\ call.routes[1].page_id = PAGES.cocalc.id
                /\ \A i \in DOMAIN call.items : ~call.items[i].is_duplicate

\* C10, amended: a template whose has_sagetex is false, whose lower-cased
\* category contains no SageMath category and whose lower-cased name, description
\* and category, joined by spaces, contain no SageMath keyword is routed to
\* exactly one page, the default one, and the one QueuedContent made of it has
\* is_duplicate = false and no group id.
C10_DefaultOnly ==
    last.op = "_schedule_templates_for_day" =>
        \A k \in DOMAIN last.calls :
            LET call == last.calls[k]
                text == lower(call.source.template_name) \o << " " >>
                        \o lower(call.source.description) \o << " " >>
                        \o lower(call.source.category)
            IN  (/\ ~call.source.has_sagetex
                 /\ \A c \in DOMAIN SAGEMATH_CATEGORIES :
                       ~Contains(lower(call.source.category), SAGEMATH_CATEGORIES[c])
                 /\ \A w \in DOMAIN SAGEMATH_KEYWORDS :
                       ~Contains(text, SAGEMATH_KEYWORDS[w]))
                => /\ Len(call.routes) = 1
                   /\ call.routes[1].page_id = PAGES.cocalc.id
                   /\ Len(call.items) = 1
                   /\ ~call.items[1].is_duplicate
                   /\ call.items[1].duplicate_group_id = None
                   /\ call.items[1].page_id = PAGES.cocalc.id

\* a physics template without SageTeX has been made into one item for CoCalc
C10_Witness ==
    /\ last.op = "_schedule_templates_for_day"
    /\ Len(last.calls) = 1
    /\ last.calls[1].source.category = << "p", "h", "y", "s", "i", "c", "s" >>
    /\ ~last.calls[1].source.has_sagetex
    /\ Len(last.calls[1].items) = 1
    /\ all_content # << >>
    /\ all_content[Len(all_content)] = last.calls[1].items[1]

\* C11: every QueuedContent the scheduler makes has is_duplicate = true exactly
\* when its source was routed to more than one page, and a group id exactly when
\* is_duplicate is true; a source with one route yields one item, at base_time,
\* with is_duplicate = false and no group id.
C11_DuplicateFlags ==
    /\ \A i \in DOMAIN all_content :
          all_content[i].is_duplicate <=> all_content[i].duplicate_group_id # None
    /\ (last.op \in {"_schedule_templates_for_day", "_schedule_notebooks_for_day"}) =>
          \A k \in DOMAIN last.calls :
              LET call == last.calls[k] IN
              /\ \A i \in DOMAIN call.items :
                    /\ call.items[i].is_duplicate <=> Len(call.routes) > 1
                    /\ call.items[i].duplicate_group_id # None <=> call.items[i].is_duplicate
              /\ Len(call.routes) = 1 =>
                    /\ Len(call.items) = 1
                    /\ call.items[1].scheduled_time = isoformat(call.base_time)
                    /\ fromisoformat(call.items[1].scheduled_time) = call.base_time
                    /\ ~call.items[1].is_duplicate
                    /\ call.items[1].duplicate_group_id = None

\* a source with two routes has just been made into two flagged items, after a
\* source with one route was made into an unflagged one
C11_Witness ==
    /\ last.op = "_schedule_templates_for_day"
    /\ Len(last.calls) = 1
    /\ Len(last.calls[1].routes) = 2
    /\ Len(last.calls[1].items) = 2
    /\ last.calls[1].items[2].is_duplicate
    /\ \E i \in DOMAIN all_content :
          ~all_content[i].is_duplicate /\ all_content[i].content_type = "template"

\* C12: when the publish call for a due post scheduled at T returns a transient
\* failure or raises, after the dispatch the post is still in the queue with
\* scheduled_time T + 1 hour, every other field of it is unchanged, and so is
\* every other post.
C12_TransientReschedule ==
    (last.op = "publish_post" /\ last.result \in {"failure", "raised"}) =>
        LET post == TheValue(last.post)
            T == fromisoformat(post.scheduled_time)
        IN  /\ \E i \in DOMAIN last.before : last.before[i] = post
            /\ DOMAIN post_queue = DOMAIN last.before
            /\ \A i \in DOMAIN post_queue :
                  IF last.before[i] = post
                  THEN /\ Parsable(post_queue[i].scheduled_time)
                       /\ fromisoformat(post_queue[i].scheduled_time) = T + 60
                       /\ \A f \in PostFields \ {"scheduled_time"} :
                             post_queue[i][f] = post[f]
                  ELSE post_queue[i] = last.before[i]

\* a request for a post due at 23:56 failed; the post is now due at 00:56 of
\* the next day, the other post of the queue is as it was
C12_Witness ==
    /\ last.op = "publish_post"
    /\ last.result = "failure"
    /\ TheValue(last.post).scheduled_time = << 0, 23, 56 >>
    /\ Len(post_queue) = 2
    /\ \E i \in DOMAIN post_queue :
          /\ post_queue[i].template = TheValue(last.post).template
          /\ post_queue[i].scheduled_time = << 1, 0, 56 >>

\* C13: route_template and route_notebook return a list that is never empty,
\* holds the default page (CoCalc) with priority 10, holds the specialized page
\* (SageMath), with priority 8, exactly when its predicate matches the source,
\* and never holds the same page id twice.
C13_RouterShape ==
    (last.op \in {"_schedule_templates_for_day", "_schedule_notebooks_for_day"}) =>
        \A k \in DOMAIN last.calls :
            LET routes == last.calls[k].routes
                source == last.calls[k].source
                matches == IF last.op = "_schedule_templates_for_day"
                           THEN _is_sagemath_relevant(source)
                           ELSE _is_notebook_sagemath_relevant(source)
                to(page) == {i \in DOMAIN routes : routes[i].page_id = PAGES[page].id}
            IN  /\ routes # << >>
                /\ \E i \in to("cocalc") : routes[i].priority = 10
                /\ to("sagemath") # {} <=> matches
                /\ \A i \in to("sagemath") : routes[i].priority = 8
                /\ \A i, j \in DOMAIN routes :
                      routes[i].page_id = routes[j].page_id => i = j
                /\ DOMAIN routes = to("cocalc") \cup to("sagemath")
                /\ last.op = "_schedule_templates_for_day" =>
                      (to("sagemath") # {} <=>
                          source.template_name \in {Templates[2].template_name,
                                                    Templates[3].template_name})
                /\ last.op = "_schedule_notebooks_for_day" =>
                      (to("sagemath") # {} <=> source.basename = Notebooks[2].basename)

\* a day's notebooks have just been routed: one of them to both pages
C13_Witness ==
    /\ last.op = "_schedule_notebooks_for_day"
    /\ \E k \in DOMAIN last.calls :
          /\ Len(last.calls[k].routes) = 2
          /\ last.calls[k].routes[2].page_id = PAGES.sagemath.id
          /\ last.calls[k].source.basename = Notebooks[2].basename

C15_NoDrift ==
    (frame = None /\ last.op \in {"add_content", "add_batch", "remove_content",
                                  "mark_posted", "reschedule_content"}) =>
        _load_queue(queue_file, now) = queue

\* C16: the mutations of two writers on the same queue file exclude each other,
\* so no update is lost: every item either manager has added is in the
\* persisted queue.
C16_NoLostUpdate ==
    (last.op \in {"add_content", "add_batch", "peer:add_content"}) =>
        \A content_id \in 1..(uuid_next - 1) :
            \E i \in DOMAIN _load_queue(queue_file, now) :
                _load_queue(queue_file, now)[i].content_id = content_id

\* C17: when a dispatch fails for a reason no retry can fix (the platform
\* requires an image and the post has none, or the credentials are missing),
\* the post is left in the queue with its scheduled_time unchanged: it is not
\* rescheduled.
C17_TerminalFailure ==
    (last.op = "publish_post" /\ last.result \in {"missing_media", "missing_credentials"}) =>
        /\ post_queue = last.before
        /\ \E i \in DOMAIN post_queue : post_queue[i] = TheValue(last.post)

\* C18: a failure result or an exception of the publish call, or a failed write
\* of the queue file, never ends the poll loop: publish_post returns, the due
\* posts of the poll that remain are still handed to publish_post in their
\* order, and after the last of them the loop waits for the next poll.
C18_LoopSurvives ==
    /\ loop.pc # "crashed"
    /\ last.op = "publish_post" =>
          /\ loop.pc \in {"sleeping", "polling"}
          /\ loop.post = None
          /\ loop.dispatched \o loop.due = loop.polled
          /\ loop.pc = "polling" <=> loop.due # << >>
          /\ loop.pc = "sleeping" => loop.dispatched = loop.polled
          /\ last.ret <=> last.result = "success"

\* the request for the first of two due posts raised and a write of the queue
\* file has failed; the second post is up next
C18_Witness ==
    /\ last.op = "publish_post"
    /\ last.result = "raised"
    /\ faults = 1
    /\ loop.pc = "polling"
    /\ Len(loop.polled) = 2
    /\ Len(loop.due) = 1

\* C19: when Ctrl+C arrives while a publish call is in flight, the loop stops
\* only after that call has finished and its outcome is applied to the queue
\* (the post removed on success, rescheduled on failure); it never stops with a
\* post the platform accepted still in the queue.
C19_GracefulShutdown ==
    loop.pc = "stopped" =>
        /\ \A i \in DOMAIN post_queue : post_queue[i].template \notin published
        /\ last.in_flight # None =>
              \A i \in DOMAIN post_queue : post_queue[i] # TheValue(last.in_flight)

\* C20: the due posts of one poll are handed to publish_post in queue order:
\* ascending scheduled_time and, for equal times, descending priority, also
\* when an earlier poll rescheduled a post.
C20_DispatchOrder ==
    \A i, j \in DOMAIN loop.polled :
        i < j => ~KeyLess(loop.polled[j], loop.polled[i])

\* C21: remove_content(content_id) returns True and removes the item when an
\* item with that id is queued; it returns False and leaves the queue and the
\* queue file as they were when none is; after it no item with that id is
\* queued, so a second call with the same id returns False and changes nothing.
C21_RemoveIdempotent ==
    [][last'.op = "remove_content" =>
          LET content_id == last'.id
              present == \E i \in DOMAIN queue : queue[i].content_id = content_id
          IN  /\ last'.ret <=> present
              /\ queue' = SelectSeq(queue, LAMBDA c : c.content_id # content_id)
              /\ \A i \in DOMAIN queue' : queue'[i].content_id # content_id
              /\ ~present => queue' = queue /\ queue_file' = queue_file
              /\ posting_history' = posting_history]_vars

\* the second remove_content of an item that was added and removed: it returned
\* False, and another item is still queued
C21_Witness ==
    /\ last.op = "remove_content"
    /\ ~last.ret
    /\ last.id < uuid_next
    /\ \A i \in DOMAIN posting_history : posting_history[i].content_id # last.id
    /\ Len(queue) = 1
    /\ queue[1].content_id # last.id

C23_UnparsableSkipped ==
    last.op = "get_due_content" =>
        /\ last.ret
        /\ \A k \in DOMAIN last.items :
              /\ \E i \in DOMAIN queue : queue[i] = last.items[k]
              /\ last.items[k].scheduled_time \notin BadTimeTexts
        /\ \A i \in DOMAIN queue :
              (/\ queue[i].scheduled_time \notin BadTimeTexts
               /\ now <= fromisoformat(queue[i].scheduled_time)
               /\ fromisoformat(queue[i].scheduled_time) <= now + last.w)
                  => \E k \in DOMAIN last.items : last.items[k] = queue[i]

\* the queue holds an item whose time does not parse and an item that is due:
\* get_due_content returned the due one
C23_Witness ==
    /\ last.op = "get_due_content"
    /\ Len(queue) = 2
    /\ \E i \in DOMAIN queue : queue[i].scheduled_time \in BadTimeTexts
    /\ Len(last.items) = 1
    /\ last.items[1].scheduled_time \notin BadTimeTexts

-----------------------------------------------------------------------------
(* Claims about the Calendar Scheduler of the SmartScheduler *)

C26_AdjustHashtags ==
    last.op = "adjust_hashtags_for_page" =>
        LET base == last.base_hashtags
            ret == last.ret
            SagePage == Contains(last.page_name, << "S", "a", "g", "e", "M", "a", "t", "h" >>)
            destination == IF SagePage
                           THEN {"SageMath", "SymbolicMath", "PureMath", "MathematicalComputing"}
                           ELSE {"CoCalc", "ComputationalScience", "ReproducibleResearch"}
            off_topic == IF SagePage THEN {"Engineering", "Physics", "DataScience"} ELSE {}
            added == destination \ Range(base)
            n == Cardinality(added)
            originals == SelectSeq(base, LAMBDA tag : tag \notin off_topic)
            Count(s, tag) == Cardinality({i \in DOMAIN s : s[i] = tag})
        IN  /\ Len(ret) = Min(10, n + Len(originals))
            /\ {ret[i] : i \in 1..n} = added
            /\ SubSeq(ret, n + 1, Len(ret)) = SubSeq(originals, 1, Len(ret) - n)
            /\ \A i \in DOMAIN ret : ret[i] \notin off_topic
            /\ \A tag \in destination :
                   Count(ret, tag) <= IF tag \in Range(base) THEN Count(base, tag) ELSE 1
            /\ last.after = base

\* a call for the SageMath page with a list that holds SageMath, an off-topic
\* tag and more tags than fit
C26_Witness ==
    /\ last.op = "adjust_hashtags_for_page"
    /\ Contains(last.page_name, << "S", "a", "g", "e", "M", "a", "t", "h" >>)
    /\ "SageMath" \in Range(last.base_hashtags)
    /\ "Physics" \in Range(last.base_hashtags)
    /\ Len(last.ret) = 10
    /\ last.ret[Len(last.ret)] # last.base_hashtags[Len(last.base_hashtags)]


\* C27: in every reachable state of the queue, also after +1 hour reschedules of
\* group members, any two queued members of one duplicate group are scheduled
\* on days at least min_day_gap apart.
C27_SpacingUnderReschedule ==
    \A i \in DOMAIN queue : \A j \in DOMAIN queue :
        (/\ i # j
         /\ Parsable(queue[i].scheduled_time) /\ Parsable(queue[j].scheduled_time)
         /\ queue[i].duplicate_group_id # None
         /\ queue[i].duplicate_group_id = queue[j].duplicate_group_id)
        => Abs(day(fromisoformat(queue[i].scheduled_time))
               - day(fromisoformat(queue[j].scheduled_time))) >= min_day_gap


\* C28: after publish_post rescheduled a post on a transient failure, the
\* Dispatcher's queue and the queue its file holds are ordered by scheduled_time
\* ascending and, for equal times, by priority descending.
C28_RescheduleSorted ==
    (last.op = "publish_post"
        /\ last.result \in {"failure", "raised", "missing_credentials", "not_implemented"}) =>
        LET Sorted(q) == \A i \in DOMAIN q : \A j \in DOMAIN q : i < j => ~KeyLess(q[j], q[i])
        IN  /\ Sorted(post_queue)
            /\ post_queue_file.state = "json" => Sorted(_load_post_queue(post_queue_file))


\* C29: a queued post whose scheduled_time is earlier than the clock is returned
\* by get_posts_due for no window, is not among the posts the next poll finds,
\* and is after every step of the Dispatcher still queued as it was and not
\* published; as the clock never goes back, it stays queued for ever.
C29_OverdueNeverDispatched ==
    [][\A i \in DOMAIN post_queue :
          LET post == post_queue[i] IN
          (/\ Parsable(post.scheduled_time)
           /\ fromisoformat(post.scheduled_time) < now
           /\ post.template \notin published)
          => /\ \A w \in Windows \cup {1} : post \notin Range(get_posts_due(post_queue, now, w))
             /\ post \notin Range(loop'.polled)
             /\ post \in Range(post_queue')
             /\ post.template \notin published'
             /\ fromisoformat(post.scheduled_time) < now']_vars

\* a poll ran after the minute of a queued post and found another post due, and
\* that one has been published since
C29_Witness ==
    /\ last.op = "publish_post"
    /\ last.result = "success"
    /\ \E i \in DOMAIN post_queue :
          /\ fromisoformat(post_queue[i].scheduled_time) < now
          /\ post_queue[i].template \notin published


\* C30: while the process runs, a publish call that succeeds is for a post not
\* published before and takes the post out of the queue, and no poll after it
\* finds a published post among the due posts or in the queue; so no post is
\* published twice.
C30_AtMostOnce ==
    [][/\ (last'.op = "publish_post" /\ last'.result = "success") =>
             LET post == TheValue(last'.post) IN
             /\ post.template \notin published
             /\ post.template \in published'
             /\ \A i \in DOMAIN post_queue' : post_queue'[i].template # post.template
       /\ last'.op = "check_and_publish" =>
             /\ \A i \in DOMAIN post_queue' : post_queue'[i].template \notin published'
             /\ \A i \in DOMAIN loop'.polled : loop'.polled[i].template \notin published']_vars

\* a poll that finds a post due after another post has been published, the
\* write of the queue file having failed
C30_Witness ==
    /\ last.op = "check_and_publish"
    /\ published # {}
    /\ loop.polled # << >>
    /\ post_queue_file.state = "corrupt"


-----------------------------------------------------------------------------
(* Claims about frame effects, retries and bounds *)

\* C31: when the publish call for a post succeeds, publish_post takes that post
\* out of the queue and leaves every other post in it, unchanged and in the
\* order it had.
C31_SuccessRemovesOne ==
    (last.op = "publish_post" /\ last.result = "success") =>
        LET post == TheValue(last.post)
            at == {i \in DOMAIN last.before : last.before[i] = post}
        IN  /\ Cardinality(at) = 1
            /\ \A i \in at :
                  post_queue = SubSeq(last.before, 1, i - 1)
                                  \o SubSeq(last.before, i + 1, Len(last.before))
            /\ last.ret

\* the second of two queued posts has been published; the first, of the same
\* platform, is still queued
C31_Witness ==
    /\ last.op = "publish_post"
    /\ last.result = "success"
    /\ Len(last.before) = 2
    /\ last.before[2] = TheValue(last.post)
    /\ post_queue = << last.before[1] >>
    /\ last.before[1].platform = last.before[2].platform


\* C32: reschedule_content(id, new_time) returns True exactly when an item with
\* that id is queued; then that item has the new scheduled_time and its other
\* fields as before, and every other item is queued as it was; when no item has
\* the id, the queue and the queue file are as they were.
C32_RescheduleFrame ==
    [][last'.op = "reschedule_content" =>
          LET content_id == last'.id
              Others(q) == {q[i] : i \in {j \in DOMAIN q : q[j].content_id # content_id}}
              hits == {i \in DOMAIN queue : queue[i].content_id = content_id}
              hits_after == {i \in DOMAIN queue' : queue'[i].content_id = content_id}
          IN  /\ last'.ret <=> hits # {}
              /\ Len(queue') = Len(queue)
              /\ Others(queue') = Others(queue)
              /\ Cardinality(hits_after) = Cardinality(hits)
              /\ \A i \in hits : \A j \in hits_after :
                    /\ queue'[j].scheduled_time = isoformat(last'.w)
                    /\ \A f \in ContentFields \ {"scheduled_time"} : queue'[j][f] = queue[i][f]
              /\ hits = {} => queue' = queue /\ queue_file' = queue_file]_vars

\* an item of a queue of two has been moved behind the other one
C32_Witness ==
    /\ last.op = "reschedule_content"
    /\ last.ret
    /\ Len(queue) = 2
    /\ queue[2].content_id = last.id
    /\ queue[2].content_id < queue[1].content_id
    /\ queue[2].scheduled_time = isoformat(last.w)


\* C33: get_due_content, get_content_by_date_range, get_content_by_page,
\* get_content_by_type and get_statistics leave the queue, the queue file, the
\* posting history and its file as they were, and each filter returns exactly
\* the queued items that satisfy its predicate, in queue order.
C33_ReadOnly ==
    [][last'.op \in {"get_due_content", "get_content_by_date_range", "get_content_by_page",
                     "get_content_by_type", "get_statistics"} =>
          LET InRange(c) == /\ Parsable(c.scheduled_time)
                            /\ last'.w[1] <= fromisoformat(c.scheduled_time)
                            /\ fromisoformat(c.scheduled_time) <= last'.w[2]
              Due(c) == /\ Parsable(c.scheduled_time)
                        /\ now <= fromisoformat(c.scheduled_time)
                        /\ fromisoformat(c.scheduled_time) <= now + last'.w
              OfPage(c) == c.page_id = last'.w
              OfType(c) == c.content_type = last'.w
          IN  /\ queue' = queue
              /\ queue_file' = queue_file
              /\ posting_history' = posting_history
              /\ history_file' = history_file
              /\ last'.op = "get_due_content" => last'.items = SelectSeq(queue, Due)
              /\ last'.op = "get_content_by_date_range" => last'.items = SelectSeq(queue, InRange)
              /\ last'.op = "get_content_by_page" => last'.items = SelectSeq(queue, OfPage)
              /\ last'.op = "get_content_by_type" => last'.items = SelectSeq(queue, OfType)
              /\ last'.op = "get_statistics" => last'.items[1].total_queued = Len(queue)]_vars

\* a range that ends at the time of the first of two queued items and returns
\* that item only
C33_Witness ==
    /\ last.op = "get_content_by_date_range"
    /\ Len(queue) = 2
    /\ Len(last.items) = 1
    /\ last.items[1] = queue[1]
    /\ fromisoformat(queue[1].scheduled_time) = last.w[2]
    /\ queue[1].page_id # queue[2].page_id


\* C34: after a scheduling pass for a page, a slot of the pass is empty only if
\* no candidate the selection could return for it is routed to that page: a
\* selected source the Router does not send to the page is replaced by another
\* selection for the same slot. (A slot whose notebook has no Facebook text in its
\* post file is left out of the statement.)
C34_RouteMismatchRetry ==
    last.op \in {"_schedule_templates_for_day", "_schedule_notebooks_for_day"} =>
        LET templates == last.op = "_schedule_templates_for_day"
            count == posts_per_day_per_page \div 2
            page == PAGES[CHOOSE key \in Range(PageKeys) : PAGES[key].id = last.page_id]
            themes == DAY_THEMES[weekday(last.date) + 1]
            ToPage(routes) == \E k \in DOMAIN routes : routes[k].page_id = last.page_id
            Routable ==
                IF templates
                THEN \E template \in _select_template(themes, page.name) :
                         ToPage(route_template(template))
                ELSE \E k \in DOMAIN Notebooks : ToPage(route_notebook(Notebooks[k]))
            SlotTime(i) ==
                LET index == IF templates THEN i ELSE i + count
                IN  replace_time(last.date, _get_posting_time(index)[1],
                                 _get_posting_time(index)[2])
            Filled(i) == \E k \in DOMAIN last.calls : last.calls[k].base_time = SlotTime(i)
        IN  \A i \in DOMAIN last.picks :
                (~Filled(i) /\ (templates \/ last.parsed[i])) => ~Routable


\* C35: in a slot of generate_weekly_schedule for which the template index
\* holds no template, so that no candidate is left after the recency list was
\* cleared, _select_template_for_day returns None without raising, no post is
\* added, and the pass moves on to the next time, platform or day, returning
\* after the last slot of the last day.
C35_StarvationSkipped ==
    [][(sched_pc.at = "slots" /\ sched_pc.templates = << >>) =>
          LET per_day == Len(SmartScheduler_OPTIMAL_TIMES.facebook)
                         + Len(SmartScheduler_OPTIMAL_TIMES.threads)
                         + Len(SmartScheduler_OPTIMAL_TIMES.instagram)
              SlotsBefore(pc) ==
                  pc.post_time
                      + (IF pc.platform > 1
                         THEN Len(SmartScheduler_OPTIMAL_TIMES[OptimalTimesKeys[1]]) ELSE 0)
                      + (IF pc.platform > 2
                         THEN Len(SmartScheduler_OPTIMAL_TIMES[OptimalTimesKeys[2]]) ELSE 0)
                      + pc.day_offset * per_day
              platform == OptimalTimesKeys[sched_pc.platform]
          IN  /\ last'.op = "generate_weekly_schedule"
              /\ last'.selected = None
              /\ sched_pc'.at \in {"slots", "returned"}
              /\ sched_pc'.scheduled_posts = sched_pc.scheduled_posts
              /\ sched_pc'.templates = << >>
              /\ recent_templates'[platform] = << >>
              /\ sched_pc'.at = "slots" => SlotsBefore(sched_pc') = SlotsBefore(sched_pc) + 1
              /\ sched_pc'.at = "returned" <=> SlotsBefore(sched_pc) = per_day * SchedDays
       ]_vars

\* a pass over an empty index that skipped every slot and returned no post
C35_Witness ==
    /\ sched_pc.at = "returned"
    /\ sched_pc.templates = << >>
    /\ sched_pc.scheduled_posts = << >>
    /\ last.op = "generate_weekly_schedule"
    /\ last.selected = None


\* C36: for every platform, remaining is between 0 and the capacity before and
\* after every step of the publisher; a granted check leaves remaining one below
\* what it was, or one below the capacity if the check refilled the budget; a
\* refused check leaves remaining and reset_time as they were; a step that is
\* not a check of the platform leaves its budget alone; and remaining is higher
\* after a step only if the step is a check made after reset_time, which then
\* sets reset_time one window after the check.
C36_RateBudgetBounds ==
    [][\A platform \in Platforms :
          LET before == rate_limits[platform]
              after == rate_limits'[platform]
              check == last'.op \in PublishOps /\ last'.checked /\ last'.platform = platform
          IN  /\ 0 <= before.remaining /\ before.remaining <= Capacity(platform)
              /\ 0 <= after.remaining /\ after.remaining <= Capacity(platform)
              /\ ~check => after = before
              /\ (check /\ last'.ok) =>
                     after.remaining = (IF last'.t > before.reset_time
                                        THEN Capacity(platform) ELSE before.remaining) - 1
              /\ (check /\ ~last'.ok) => after = before
              /\ after.remaining > before.remaining =>
                     /\ check
                     /\ last'.t > before.reset_time
                     /\ after.reset_time = last'.t + RateWindow
       ]_vars

\* an instagram check refused with the budget of a later window used up, the
\* budget left as it was
C36_Witness ==
    /\ last.op = "publish_to_instagram"
    /\ last.checked
    /\ ~last.ok
    /\ last.before.remaining = 0
    /\ rate_limits.instagram = last.before
    /\ last.before.reset_time > RateWindow
    /\ last.t < last.before.reset_time


\* C37: a manager constructed or restarted on a queue file that exists and does
\* not hold JSON has an empty queue, and the file is left as it is; the first
\* add_content or add_batch after that leaves in the queue the new items alone
\* and, unless its write fails, in the file the dicts of exactly these items.
C37_LoadFailureThenSave ==
    [][/\ (last'.op = "restart" /\ queue_file.state = "corrupt") =>
              /\ queue' = << >>
              /\ queue_file' = queue_file
       /\ (last.op \in {"init", "restart"} /\ queue_file.state = "corrupt") =>
              /\ queue = << >>
              /\ last'.op = "add_content" =>
                     /\ Len(queue') = 1
                     /\ queue'[1].content_id = last'.id
              /\ last'.op = "add_batch" => queue' = _sort_queue(last'.items)
              /\ (last'.op \in {"add_content", "add_batch"} /\ faults' = faults) =>
                     queue_file' = [state |-> "json",
                                    data |-> [i \in DOMAIN queue' |-> to_dict(queue'[i])]]
      ]_vars

\* the first operation of a manager that started on an unreadable file was an
\* add_batch, and the file holds its two items
C37_Witness ==
    /\ last.op = "add_batch"
    /\ faults = 0
    /\ uuid_next = 3
    /\ Len(queue) = 2
    /\ queue_file.state = "json"
    /\ _load_queue(queue_file, now) = queue


\* C38: the priority either scheduler computes for a template and a platform is
\* 5 plus the complexity bonus (2 at a score of 4 or more, 1 at a score of 3),
\* plus a bonus for rendered media that is positive exactly if the template has
\* plot files, plus a bonus for specialized computation that is positive
\* exactly if the template uses PythonTeX or SageTeX, clamped to 10; so it lies
\* between 5 and 10.
C38_PriorityBounds ==
    last.op \in {"_calculate_priority", "_calculate_template_priority"} =>
        LET template == last.template
            complexity == IF template.complexity_score >= 4 THEN 2
                          ELSE IF template.complexity_score >= 3 THEN 1 ELSE 0
            Media == IF template.plot_files # << >> THEN 1..2 ELSE {0}
            Computation == IF template.has_pythontex \/ template.has_sagetex
                           THEN 1..2 ELSE {0}
        IN  /\ \E media \in Media, computation \in Computation :
                   last.ret = Min(5 + complexity + media + computation, 10)
            /\ 5 <= last.ret
            /\ last.ret <= 10

====
